---- MODULE Spec2Model ----
(***************************************************************************)
(* ManualMind: the retrieval and caching engine.                           *)
(*                                                                         *)
(*   services/query_service.py       QueryService (query cache, responses) *)
(*   services/document_processor.py  DocumentProcessor (ingestion, search) *)
(*                                                                         *)
(* The persistent store (Redis) is modelled as three groups of keys:       *)
(* doc:<hash>, processed_files and query_cache:<hash>, each value held     *)
(* with its expiry time.  A key whose expiry time has passed is absent to  *)
(* every read.  An optional value is a sequence of length 0 or 1.          *)
(***************************************************************************)
EXTENDS Integers, Sequences, FiniteSets, TLC

(***************************************************************************)
(* Bounds of the model.                                                    *)
(***************************************************************************)
\* the clock advances at most this many times
MaxTicks == 1
\* the media folder changes at most this many times
MaxEdits == 1
\* process_query is called at most this many times
MaxCalls == 2
\* longest query string of the normalization specification
MaxLen == 4
\* longest text given to chunk_text
MaxTextLen == 18
\* chunk_text is followed for at most this many iterations of its loop
MaxIters == 5
\* the MCP server gets at most this many requests
MaxMcpCalls == 4
\* the clock of the MCP server advances at most this many times
MaxMcpTicks == 3

(***************************************************************************)
(* Program constants.                                                      *)
(***************************************************************************)
\* query_service.py:121  setex(cache_key, 3600, ...)
NO_RESULT_TTL == 3600
\* query_service.py:31   QUERY_CACHE_TTL default
QUERY_CACHE_TTL == 86400
\* document_processor.py:120, 138  setex(..., 86400, ...)
DOC_TTL == 86400
\* query_service.py:140, 142: 0.8 and 0.6, in thousandths
HIGH_THRESHOLD == 800
MEDIUM_THRESHOLD == 600
\* main.py:116  Field(..., min_length=1, max_length=500)
MIN_QUESTION_LENGTH == 1
MAX_QUESTION_LENGTH == 500
\* mcp_server/main.py:172  current_time - ts < 60
RATE_WINDOW == 60

(***************************************************************************)
(* Strings are sequences of characters, so that normalization is computed. *)
(***************************************************************************)
Letters == {"a", "A", "b", "B"}
Whitespace == {" ", "\t"}
Alphabet == Letters \cup Whitespace

\* str.lower() on the alphabet
Lower(c) ==
    CASE c = "A" -> "a"
      [] c = "B" -> "b"
      [] OTHER -> c

LowerStr(s) == [i \in 1..Len(s) |-> Lower(s[i])]

\* str.split(): the maximal runs of non-whitespace characters, in order
RECURSIVE SplitFrom(_, _, _, _)
SplitFrom(s, i, cur, acc) ==
    IF i > Len(s)
    THEN IF cur = <<>> THEN acc ELSE Append(acc, cur)
    ELSE IF s[i] \in Whitespace
         THEN SplitFrom(s, i + 1, <<>>, IF cur = <<>> THEN acc ELSE Append(acc, cur))
         ELSE SplitFrom(s, i + 1, Append(cur, s[i]), acc)

Split(s) == SplitFrom(s, 1, <<>>, <<>>)

\* ' '.join(words)
RECURSIVE Join(_)
Join(words) ==
    IF words = <<>> THEN <<>>
    ELSE IF Len(words) = 1 THEN words[1]
    ELSE words[1] \o <<" ">> \o Join(Tail(words))

\* str.strip()
RECURSIVE LStrip(_)
LStrip(s) ==
    IF s # <<>> /\ s[1] \in Whitespace THEN LStrip(Tail(s)) ELSE s

RECURSIVE RStrip(_)
RStrip(s) ==
    IF s # <<>> /\ s[Len(s)] \in Whitespace
    THEN RStrip(SubSeq(s, 1, Len(s) - 1)) ELSE s

Strip(s) == RStrip(LStrip(s))

\* a mutant of _normalize_query: the case is kept
NormalizeKeepCase(query) == Join(Split(Strip(query)))

\* QueryService._normalize_query: ' '.join(query.lower().strip().split())
NormalizeQuery(query) == Join(Split(Strip(LowerStr(query))))

\* a mutant of the cache key: top_k is left out
GetQueryCacheKeyWithoutTopK(query, top_k) == <<"query_cache", NormalizeQuery(query), 1>>

\* QueryService._get_query_cache_key: "query_cache:" + md5(normalized:top_k_k).
\* md5 is taken as injective: the key is the pair it digests.
GetQueryCacheKey(query, top_k) == <<"query_cache", NormalizeQuery(query), top_k>>

(***************************************************************************)
(* json.dumps / json.loads of a value made of strings, integers and lists. *)
(***************************************************************************)
JsonDumps(v) == <<"json", v>>
JsonLoads(s) == s[2]

(***************************************************************************)
(* The media folder, the documents and the embedding model.                *)
(***************************************************************************)
Names == {"a.pdf", "b.pdf"}

\* the bytes of a file; "e" is a PDF with no extractable text
Contents == {"x", "y", "e"}
Absent == "absent"
MediaVals == Contents \cup {Absent}

\* what each file of the folder may hold: a.pdf is rewritten with other
\* bytes; b.pdf is a copy of a.pdf, a PDF without text, or not there
FileVals(n) == IF n = "a.pdf" THEN {"x", "y"} ELSE {"x", "e", Absent}

\* DocumentProcessor.get_file_hash: md5 of the bytes, taken as injective
FileHash(c) == <<"md5", c>>
Hashes == {FileHash(c) : c \in Contents}
NoHash == <<>>

\* Path(media_path) / name
FilePath(name) == <<"media", name>>

\* DocumentProcessor.extract_text_from_pdf: "" when the file cannot be read
\* (the exception is caught); the text of the pages, a newline after each,
\* otherwise: newlines alone for a PDF whose pages hold no text
ExtractText(c) ==
    IF c = Absent THEN <<>>
    ELSE IF c = "e" THEN <<"\n", c>>
    ELSE <<"text", c>>

\* a mutant of the emptiness test: only "" counts as no text
BlankOnlyEmpty(text) == text = <<>>

\* not text.strip(): the text is empty or whitespace only
Blank(text) == text = <<>> \/ text[1] = "\n"

\* DocumentProcessor.chunk_text, by the number of chunks it cuts the text
\* into; a chunk is named by its text and its position
NChunks(text) == IF text[2] = "x" THEN 2 ELSE 1
ChunkText(text) == [i \in 1..NChunks(text) |-> <<text[2], i>>]

\* DocumentProcessor.generate_embeddings: one vector per chunk,
\* deterministic in the chunk
GenerateEmbeddings(chunks) == [i \in 1..Len(chunks) |-> <<"vec", chunks[i]>>]

\* embedding_model.encode([query]): the raw query text is embedded
EncodeQuery(query) == <<"qvec", query>>

\* np.dot(query_embedding, embedding), in thousandths
Dot(qvec, cvec) ==
    LET upper == qvec[2] # <<>> /\ qvec[2][1] = "A"
        chunk == cvec[2]
    IN  CASE chunk = <<"x", 1>> -> IF upper THEN 850 ELSE 650
          [] chunk = <<"x", 2>> -> 650
          [] chunk = <<"y", 1>> -> IF upper THEN 650 ELSE 300
          [] OTHER -> 0

\* the doc_data dictionary of process_document
DocData(name, hash, chunks, embeddings) ==
    [file_path |-> FilePath(name),
     file_name |-> name,
     file_hash |-> hash,
     chunks |-> chunks,
     embeddings |-> embeddings,
     total_chunks |-> Len(chunks)]

\* the error dictionary of process_document
DocError(name) == [error |-> <<"No text extracted from", FilePath(name)>>]

(***************************************************************************)
(* The queries.                                                            *)
(***************************************************************************)
\* two spellings of one question
Queries == { <<"A", "b">>, <<"a", "b", " ">> }
TopKs == {1, 2}
Keys == {GetQueryCacheKey(q, k) : q \in Queries, k \in TopKs}

\* the outcomes of generate_response: the model's text or, on any
\* exception, the apology text
Generations == {"answer", "apology"}

QProcs == {"q1", "q2"}
BProcs == {"b1", "b2"}

VARIABLES
    now,        \* the clock, in seconds
    ticks,      \* how many times the clock has advanced
    edits,      \* how many times the media folder has changed
    calls,      \* how many process_query calls have begun
    docs,       \* doc:<hash> keys: hash -> <<>> or <<[val, exp, ttl]>>
    processed,  \* the processed_files key: <<>> or <<[val, exp, ttl]>>
    qcache,     \* query_cache:<hash> keys: key -> <<>> or <<[val, exp, ttl]>>
    media,      \* the media folder: file name -> bytes, or Absent
    qpc,        \* process_query: where each call is
    qquery,     \* process_query: the query argument
    qtopk,      \* process_query: the top_k argument
    qresult,    \* process_query: the result built, <<>> before
    qttl,       \* process_query: the TTL of the branch that built the result
    qret,       \* process_query: what the call returned, <<>> before
    qcalls,     \* process_query: the functions the call has invoked
    qlookup,    \* process_query: how the cache lookup of the call ended
    bpc,        \* process_media_folder: where each batch is; "raised_io"
                \* and "raised_embed" when an exception of open() or of
                \* generate_embeddings has ended it
    bfiles,     \* process_media_folder: pdf_files
    bresults,   \* process_media_folder: the results, in insertion order
    bhash,      \* process_document: file_hash
    bdoc,       \* process_document: doc_data, <<>> before
    nstage,     \* normalization: "input", "keyed"
    nquery,     \* normalization: a query
    nvariant,   \* normalization: a respelling of it
    ntopk,      \* normalization: top_k
    nkeys,      \* normalization: the two cache keys, <<>> before
    sstage,     \* search: "input", "searched", "repeated"
    squery,     \* search: the query argument
    stopk,      \* search: the top_k argument, <<>> for None
    spicks,     \* search: the records the key scan gave first, per call
    sresults,   \* search: the list each call returned
    rstage,     \* the result of a query: "input", "built"
    rchunks,    \* the result of a query: similar_chunks
    rresponse,  \* the result of a query: what generate_response returned
    rresult,     \* the result of a query: result, <<>> before
    cstage,     \* chunk_text: "input", "loop", "done"
    ctext,      \* chunk_text: the text argument
    max_chunk_size,\* DocumentProcessor: MAX_CHUNK_SIZE
    chunk_overlap,\* DocumentProcessor: CHUNK_OVERLAP
    cstart,     \* chunk_text: start
    cchunks,    \* chunk_text: chunks
    cwindows,   \* chunk_text: the <<start, end>> of the iterations so far
    citers,      \* chunk_text: the iterations so far
    hstage,     \* POST /query: "request", "responded"
    hauthorized,\* POST /query: verify_api_key lets the request in
    hlimited,   \* POST /query: the rate limit of the client is used up
    hquestion,  \* POST /query: the length of question and how many of its characters are not whitespace
    hmaxresults,\* POST /query: max_results, <<>> for null
    hstatus,    \* POST /query: the status of the response, 0 before
    hreached,    \* POST /query: process_query has been called
    kstage,     \* find_similar_chunks, key by key: "input", "scan", "read", "returned", "raised"
    kquery,     \* find_similar_chunks, key by key: query
    ktopk,      \* find_similar_chunks, key by key: top_k, <<>> for None
    kfiles,     \* find_similar_chunks, key by key: processed_files as loaded
    kindex,     \* find_similar_chunks, key by key: the place of file_name in it
    kkeys,      \* find_similar_chunks, key by key: the keys scan_iter has given
    ksims,      \* find_similar_chunks, key by key: all_similarities
    kresult,     \* find_similar_chunks, key by key: the list returned
    rate_limit_per_minute,\* MCP server: RATE_LIMIT_PER_MINUTE
    request_timestamps,\* MCP server: the timestamps _check_rate_limit keeps
    mnow,       \* MCP server: time.time(), in seconds
    mticks,     \* MCP server: how many times the clock has advanced
    mcalls,     \* MCP server: the requests so far
    madmitted,  \* MCP server: the times at which _check_rate_limit returned True
    mexecuted,  \* MCP server: the times at which a tool was run
    mlast,       \* MCP server: what the last _check_rate_limit returned, "none" before
    astage,     \* verify_api_key: "request", "granted", "401"
    apath,      \* verify_api_key: request.url.path
    aclient,    \* verify_api_key: client_ip, as its characters
    axinternal, \* verify_api_key: the x-internal-request header, <<>> when absent
    axforwarded,\* verify_api_key: the x-forwarded-for header, as its characters
    aconfigured,\* verify_api_key: API_KEY, <<>> when the variable is not set
    axapikey,   \* verify_api_key: the X-API-Key header, <<>> when absent
    abearer     \* verify_api_key: the bearer token, <<>> when absent

storeVars == <<docs, processed, qcache>>
clockVars == <<now, ticks, edits, calls>>
queryVars == <<qpc, qquery, qtopk, qresult, qttl, qret, qcalls, qlookup>>
batchVars == <<bpc, bfiles, bresults, bhash, bdoc>>
normVars == <<nstage, nquery, nvariant, ntopk, nkeys>>
searchVars == <<sstage, squery, stopk, spicks, sresults>>
resultVars == <<rstage, rchunks, rresponse, rresult>>
chunkVars == <<cstage, ctext, max_chunk_size, chunk_overlap, cstart, cchunks, cwindows, citers>>
httpVars == <<hstage, hauthorized, hlimited, hquestion, hmaxresults, hstatus, hreached>>
scanVars == <<kstage, kquery, ktopk, kfiles, kindex, kkeys, ksims, kresult>>
mcpVars == <<rate_limit_per_minute, request_timestamps, mnow, mticks, mcalls, madmitted, mexecuted, mlast>>
authVars == <<astage, apath, aclient, axinternal, axforwarded, aconfigured, axapikey, abearer>>
vars == <<now, ticks, edits, calls, docs, processed, qcache, media,
          qpc, qquery, qtopk, qresult, qttl, qret, qcalls, qlookup,
          bpc, bfiles, bresults, bhash, bdoc,
          nstage, nquery, nvariant, ntopk, nkeys,
          sstage, squery, stopk, spicks, sresults,
          rstage, rchunks, rresponse, rresult,
          cstage, ctext, max_chunk_size, chunk_overlap, cstart, cchunks, cwindows, citers,
          hstage, hauthorized, hlimited, hquestion, hmaxresults, hstatus, hreached,
          kstage, kquery, ktopk, kfiles, kindex, kkeys, ksims, kresult,
          rate_limit_per_minute, request_timestamps, mnow, mticks, mcalls, madmitted, mexecuted, mlast,
          astage, apath, aclient, axinternal, axforwarded, aconfigured, axapikey, abearer>>

(***************************************************************************)
(* Redis: GET of a key; a key past its expiry time is gone.                *)
(***************************************************************************)
Get(slot) == IF slot # <<>> /\ now < slot[1].exp THEN <<slot[1].val>> ELSE <<>>

DocGet(h) == Get(docs[h])
ProcessedGet == Get(processed)
QueryGet(key) == Get(qcache[key])

\* SETEX key ttl value
Setex(ttl, value) == <<[val |-> value, exp |-> now + ttl, ttl |-> ttl]>>

(***************************************************************************)
(* DocumentProcessor.find_similar_chunks                                   *)
(***************************************************************************)
\* the unexpired doc:* records whose file_name is `name`
Matching(name) ==
    {h \in Hashes : DocGet(h) # <<>> /\ JsonLoads(DocGet(h)[1]).file_name = name}

\* scan_iter enumerates the doc:* keys in an order of its own: for each
\* listed file name the first matching record of the scan is taken
\* (break), none when no record matches
Picks(files) ==
    {f \in [1..Len(files) -> Hashes \cup {NoHash}] :
        \A i \in 1..Len(files) :
            IF Matching(files[i]) = {} THEN f[i] = NoHash
            ELSE f[i] \in Matching(files[i])}

\* the entries one document adds to all_similarities
DocSimilarities(qvec, file_name, h) ==
    IF h = NoHash THEN <<>>
    ELSE LET doc_data == JsonLoads(DocGet(h)[1])
         IN  [i \in 1..Len(doc_data.embeddings) |->
                [file_name |-> file_name,
                 chunk_index |-> i - 1,
                 chunk_text |-> doc_data.chunks[i],
                 similarity |-> Dot(qvec, doc_data.embeddings[i]),
                 file_path |-> doc_data.file_path]]

RECURSIVE AllSimilarities(_, _, _, _)
AllSimilarities(qvec, files, pick, i) ==
    IF i > Len(files) THEN <<>>
    ELSE DocSimilarities(qvec, files[i], pick[i])
         \o AllSimilarities(qvec, files, pick, i + 1)

\* a mutant of the sort: ascending
RECURSIVE InsertAsc(_, _)
InsertAsc(sorted, x) ==
    IF sorted = <<>> THEN <<x>>
    ELSE IF sorted[1].similarity <= x.similarity
         THEN <<sorted[1]>> \o InsertAsc(Tail(sorted), x)
         ELSE <<x>> \o sorted

\* a mutant of the sort: descending, equal keys in reverse order
RECURSIVE InsertDescTiesReversed(_, _)
InsertDescTiesReversed(sorted, x) ==
    IF sorted = <<>> THEN <<x>>
    ELSE IF sorted[1].similarity > x.similarity
         THEN <<sorted[1]>> \o InsertDescTiesReversed(Tail(sorted), x)
         ELSE <<x>> \o sorted

\* list.sort(key=similarity, reverse=True): stable, so equal keys keep
\* their order
RECURSIVE InsertDesc(_, _)
InsertDesc(sorted, x) ==
    IF sorted = <<>> THEN <<x>>
    ELSE IF sorted[1].similarity >= x.similarity
         THEN <<sorted[1]>> \o InsertDesc(Tail(sorted), x)
         ELSE <<x>> \o sorted

RECURSIVE SortDescFrom(_, _, _)
SortDescFrom(s, i, acc) ==
    IF i > Len(s) THEN acc ELSE SortDescFrom(s, i + 1, InsertDesc(acc, s[i]))

SortDesc(s) == SortDescFrom(s, 1, <<>>)

\* s[:top_k], top_k being <<>> for None and <<k>> for the integer k: all of
\* s for None, the first k elements for k >= 0, all but the last -k for k < 0
Take(s, top_k) ==
    IF top_k = <<>> THEN s
    ELSE LET k == top_k[1]
             stop == IF k >= 0
                     THEN (IF k < Len(s) THEN k ELSE Len(s))
                     ELSE (IF Len(s) + k > 0 THEN Len(s) + k ELSE 0)
         IN  SubSeq(s, 1, stop)

\* find_similar_chunks once processed_files has been read; top_k is <<>> for
\* None and <<k>> for the integer k
FindSimilarChunks(query, top_k, pick) ==
    IF ProcessedGet = <<>> THEN <<>>
    ELSE Take(SortDesc(AllSimilarities(EncodeQuery(query),
                                       JsonLoads(ProcessedGet[1]), pick, 1)),
              top_k)

(***************************************************************************)
(* QueryService.process_query                                              *)
(***************************************************************************)
\* round(similarity, 3): similarities are held in thousandths
Round3(similarity) == similarity

\* chunk_text[:200], "..." added when cut: a function of the chunk text
Preview(chunk_text) == <<"preview", chunk_text>>

RECURSIVE MaxSimilarity(_)
MaxSimilarity(chunks) ==
    IF Len(chunks) = 1 THEN chunks[1].similarity
    ELSE LET rest == MaxSimilarity(Tail(chunks))
         IN  IF chunks[1].similarity > rest THEN chunks[1].similarity ELSE rest

\* a mutant of the confidence policy: the thresholds belong to the upper band
ConfidenceInclusive(max_similarity) ==
    IF max_similarity >= HIGH_THRESHOLD THEN "high"
    ELSE IF max_similarity >= MEDIUM_THRESHOLD THEN "medium"
    ELSE "low"

\* the if / elif / else on max_similarity
Confidence(max_similarity) ==
    IF max_similarity > HIGH_THRESHOLD THEN "high"
    ELSE IF max_similarity > MEDIUM_THRESHOLD THEN "medium"
    ELSE "low"

\* a mutant of the no-result branch: the count of the sources is left out
NoResultWithoutTotal(query) ==
    [query |-> query,
     response |-> "no relevant information",
     sources |-> <<>>,
     confidence |-> "low"]

\* the result of the no-result branch
NoResult(query) ==
    [query |-> query,
     response |-> "no relevant information",
     sources |-> <<>>,
     confidence |-> "low",
     total_sources |-> 0]

\* a mutant of the found-result branch: the retrieved chunks are left out
FoundResultWithoutSources(query, similar_chunks, response) ==
    [query |-> query,
     response |-> response,
     sources |-> <<>>,
     confidence |-> "low",
     total_sources |-> 0]

\* the result of the found-result branch
FoundResult(query, similar_chunks, response) ==
    [query |-> query,
     response |-> response,
     sources |-> [i \in 1..Len(similar_chunks) |->
                    [file_name |-> similar_chunks[i].file_name,
                     similarity_score |-> Round3(similar_chunks[i].similarity),
                     preview |-> Preview(similar_chunks[i].chunk_text)]],
     confidence |-> Confidence(MaxSimilarity(similar_chunks)),
     total_sources |-> Len(similar_chunks)]

\* a mutant of the TTL choice: every response is kept for the long TTL
StoreTTLAlwaysLong(similar_chunks) == QUERY_CACHE_TTL

\* the TTL of the branch taken: 3600 under `if not similar_chunks`,
\* query_cache_ttl otherwise
StoreTTL(similar_chunks) ==
    IF similar_chunks = <<>> THEN NO_RESULT_TTL ELSE QUERY_CACHE_TTL

\* a mutant of the key a call uses: the key of top_k 1 whatever its top_k
QKeyOfFirstTopK(p) == GetQueryCacheKey(qquery[p], 1)

\* cache_key of the call
QKey(p) == GetQueryCacheKey(qquery[p], qtopk[p])

\* a call begins
QStart(p, query, top_k) ==
    /\ qpc[p] \in {"idle", "done", "raised"}
    /\ calls < MaxCalls
    /\ calls' = calls + 1
    /\ qpc' = [qpc EXCEPT ![p] = "lookup"]
    /\ qquery' = [qquery EXCEPT ![p] = query]
    /\ qtopk' = [qtopk EXCEPT ![p] = top_k]
    /\ qresult' = [qresult EXCEPT ![p] = <<>>]
    /\ qttl' = [qttl EXCEPT ![p] = 0]
    /\ qret' = [qret EXCEPT ![p] = <<>>]
    /\ qcalls' = [qcalls EXCEPT ![p] = {}]
    /\ qlookup' = [qlookup EXCEPT ![p] = "none"]
    /\ UNCHANGED <<storeVars, now, ticks, edits, media, batchVars, normVars, searchVars, resultVars, chunkVars, httpVars, scanVars, mcpVars, authVars>>

\* a mutant of the cache lookup: the cached response is not used
QLookupIgnoresCache(p) ==
    /\ qpc[p] = "lookup"
    /\ qlookup' = [qlookup EXCEPT ![p] =
                     IF QueryGet(QKey(p)) # <<>> THEN "hit" ELSE "miss"]
    /\ qpc' = [qpc EXCEPT ![p] = "search"]
    /\ UNCHANGED <<qquery, qtopk, qresult, qttl, qret, qcalls>>
    /\ UNCHANGED <<storeVars, clockVars, media, batchVars, normVars, searchVars, resultVars, chunkVars, httpVars, scanVars, mcpVars, authVars>>

\* the cache lookup: redis get may raise, which is caught and the call
\* goes on as on a miss; a cached response is returned at once
QLookup(p) ==
    /\ qpc[p] = "lookup"
    /\ \/ /\ qlookup' = [qlookup EXCEPT ![p] = "error"]
          /\ qpc' = [qpc EXCEPT ![p] = "search"]
          /\ UNCHANGED qret
       \/ /\ QueryGet(QKey(p)) # <<>>
          /\ qlookup' = [qlookup EXCEPT ![p] = "hit"]
          /\ qret' = [qret EXCEPT ![p] = <<JsonLoads(QueryGet(QKey(p))[1])>>]
          /\ qpc' = [qpc EXCEPT ![p] = "done"]
       \/ /\ QueryGet(QKey(p)) = <<>>
          /\ qlookup' = [qlookup EXCEPT ![p] = "miss"]
          /\ qpc' = [qpc EXCEPT ![p] = "search"]
          /\ UNCHANGED qret
    /\ UNCHANGED <<qquery, qtopk, qresult, qttl, qcalls>>
    /\ UNCHANGED <<storeVars, clockVars, media, batchVars, normVars, searchVars, resultVars, chunkVars, httpVars, scanVars, mcpVars, authVars>>

\* find_similar_chunks, then the result of either branch; the redis get of
\* processed_files is not in a try block, so its exception leaves the call
QCompute(p) ==
    /\ qpc[p] = "search"
    /\ \/ /\ qpc' = [qpc EXCEPT ![p] = "raised"]
          /\ qcalls' = [qcalls EXCEPT ![p] = {"embed", "search"}]
          /\ UNCHANGED <<qresult, qttl>>
       \/ \E pick \in Picks(IF ProcessedGet = <<>> THEN <<>>
                            ELSE JsonLoads(ProcessedGet[1])) :
             LET similar_chunks == FindSimilarChunks(qquery[p], <<qtopk[p]>>, pick)
             IN  /\ qpc' = [qpc EXCEPT ![p] = "store"]
                 /\ qttl' = [qttl EXCEPT ![p] = StoreTTL(similar_chunks)]
                 /\ IF similar_chunks = <<>>
                    THEN /\ qresult' = [qresult EXCEPT ![p] = <<NoResult(qquery[p])>>]
                         /\ qcalls' = [qcalls EXCEPT ![p] = {"embed", "search"}]
                    ELSE \E response \in Generations :
                         /\ qresult' = [qresult EXCEPT ![p] =
                               <<FoundResult(qquery[p], similar_chunks, response)>>]
                         /\ qcalls' = [qcalls EXCEPT ![p] =
                               {"embed", "search", "generate"}]
    /\ UNCHANGED <<qquery, qtopk, qret, qlookup>>
    /\ UNCHANGED <<storeVars, clockVars, media, batchVars, normVars, searchVars, resultVars, chunkVars, httpVars, scanVars, mcpVars, authVars>>

\* the embedding call of find_similar_chunks or the generation call of
\* generate_response does not return: process_query passes no timeout to
\* either and has none of its own, so the call waits in it
QExternalHangs(p) ==
    /\ qpc[p] = "search"
    /\ qpc' = [qpc EXCEPT ![p] = "blocked"]
    /\ \E external \in {{"embed"}, {"embed", "search", "generate"}} :
          qcalls' = [qcalls EXCEPT ![p] = external]
    /\ UNCHANGED <<qquery, qtopk, qresult, qttl, qret, qlookup>>
    /\ UNCHANGED <<storeVars, clockVars, media, batchVars, normVars, searchVars, resultVars, chunkVars, httpVars, scanVars, mcpVars, authVars>>

\* setex of the result, whose exception is caught, then return
QStore(p) ==
    /\ qpc[p] = "store"
    /\ \/ UNCHANGED qcache
       \/ qcache' = [qcache EXCEPT ![QKey(p)] =
                       Setex(qttl[p], JsonDumps(qresult[p][1]))]
    /\ qret' = [qret EXCEPT ![p] = qresult[p]]
    /\ qpc' = [qpc EXCEPT ![p] = "done"]
    /\ qlookup' = [qlookup EXCEPT ![p] = "none"]
    /\ UNCHANGED <<qquery, qtopk, qresult, qttl, qcalls>>
    /\ UNCHANGED <<docs, processed, clockVars, media, batchVars, normVars, searchVars, resultVars, chunkVars, httpVars, scanVars, mcpVars, authVars>>

\* the store drops the keys whose expiry time has come
Expire(slot, time) == IF slot # <<>> /\ time < slot[1].exp THEN slot ELSE <<>>

\* time passes
Tick ==
    /\ ticks < MaxTicks
    /\ \E d \in {NO_RESULT_TTL, DOC_TTL} : now' = now + d
    /\ ticks' = ticks + 1
    /\ UNCHANGED <<edits, calls>>
    /\ docs' = [h \in Hashes |-> Expire(docs[h], now')]
    /\ processed' = Expire(processed, now')
    /\ qcache' = [k \in Keys |-> Expire(qcache[k], now')]
    /\ UNCHANGED <<media, queryVars, batchVars, normVars, searchVars, resultVars, chunkVars, httpVars, scanVars, mcpVars, authVars>>

(***************************************************************************)
(* DocumentProcessor.process_media_folder and process_document             *)
(***************************************************************************)
\* list(Path(media_path).glob("*.pdf")): the files of the folder, in the
\* order the directory lists them
Globs ==
    LET present == {n \in Names : media[n] # Absent}
    IN  {f \in [1..Cardinality(present) -> present] :
            \A i, j \in 1..Cardinality(present) : i # j => f[i] # f[j]}

\* the file the loop of process_media_folder is at
CurrentFile(p) == bfiles[p][Len(bresults[p]) + 1]

\* a mutant of the published list: the last file of the batch is left out
ResultKeysButLast(p) == SubSeq(bfiles[p], 1, Len(bresults[p]) - 1)

\* a mutant of the published list: the names are added to the stored list
ResultKeysUnion(p) ==
    LET old == IF ProcessedGet = <<>> THEN <<>> ELSE JsonLoads(ProcessedGet[1])
        new == SubSeq(bfiles[p], 1, Len(bresults[p]))
    IN  old \o SelectSeq(new, LAMBDA n : \A i \in 1..Len(old) : old[i] # n)

\* list(results.keys()): the names in insertion order
ResultKeys(p) == SubSeq(bfiles[p], 1, Len(bresults[p]))

\* after results[pdf_file.name] = result: the next file, or the end of the loop
AfterFile(p, results) ==
    IF Len(results) = Len(bfiles[p]) THEN "publish" ELSE "check"

\* process_media_folder begins: the folder is listed
BatchStart(p, files) ==
    /\ bpc[p] \in {"idle", "done", "raised_io", "raised_embed"}
    /\ files \in Globs
    /\ bfiles' = [bfiles EXCEPT ![p] = files]
    /\ bresults' = [bresults EXCEPT ![p] = <<>>]
    /\ bhash' = [bhash EXCEPT ![p] = NoHash]
    /\ bdoc' = [bdoc EXCEPT ![p] = <<>>]
    /\ bpc' = [bpc EXCEPT ![p] = IF files = <<>> THEN "publish" ELSE "check"]
    /\ UNCHANGED <<storeVars, clockVars, media, queryVars, normVars, searchVars, resultVars, chunkVars, httpVars, scanVars, mcpVars, authVars>>

\* a mutant of the cache check: the stored record is not used
DocCheckIgnoresCache(p) ==
    /\ bpc[p] = "check"
    /\ media[CurrentFile(p)] # Absent
    /\ bhash' = [bhash EXCEPT ![p] = FileHash(media[CurrentFile(p)])]
    /\ bpc' = [bpc EXCEPT ![p] = "extract"]
    /\ UNCHANGED <<bfiles, bresults, bdoc>>
    /\ UNCHANGED <<storeVars, clockVars, media, queryVars, normVars, searchVars, resultVars, chunkVars, httpVars, scanVars, mcpVars, authVars>>

\* process_document, to the cache check: the file is hashed (open raises
\* when the file is gone) and a stored record is returned as it is
DocCheck(p) ==
    /\ bpc[p] = "check"
    /\ LET name == CurrentFile(p)
           h == FileHash(media[name])
       IN  IF media[name] = Absent
           THEN /\ bpc' = [bpc EXCEPT ![p] = "raised_io"]
                /\ bresults' = [bresults EXCEPT ![p] = <<>>]
                /\ UNCHANGED bhash
           ELSE IF DocGet(h) # <<>>
           THEN LET results == Append(bresults[p], JsonLoads(DocGet(h)[1]))
                IN  /\ bresults' = [bresults EXCEPT ![p] = results]
                    /\ bpc' = [bpc EXCEPT ![p] = AfterFile(p, results)]
                    /\ UNCHANGED bhash
           ELSE /\ bhash' = [bhash EXCEPT ![p] = h]
                /\ bpc' = [bpc EXCEPT ![p] = "extract"]
                /\ UNCHANGED bresults
    /\ UNCHANGED <<bfiles, bdoc>>
    /\ UNCHANGED <<storeVars, clockVars, media, queryVars, normVars, searchVars, resultVars, chunkVars, httpVars, scanVars, mcpVars, authVars>>

\* process_document, from the extraction to the embeddings: no text gives
\* the error result; generate_embeddings may raise, which nothing catches
DocExtractEmbed(p) ==
    /\ bpc[p] = "extract"
    /\ LET name == CurrentFile(p)
           text == ExtractText(media[name])
       IN  IF Blank(text)
           THEN LET results == Append(bresults[p], DocError(name))
                IN  /\ bresults' = [bresults EXCEPT ![p] = results]
                    /\ bpc' = [bpc EXCEPT ![p] = AfterFile(p, results)]
                    /\ bhash' = [bhash EXCEPT ![p] = NoHash]
                    /\ UNCHANGED bdoc
           ELSE \/ /\ bpc' = [bpc EXCEPT ![p] = "raised_embed"]
                   /\ bresults' = [bresults EXCEPT ![p] = <<>>]
                   /\ bhash' = [bhash EXCEPT ![p] = NoHash]
                   /\ UNCHANGED bdoc
                \/ /\ bdoc' = [bdoc EXCEPT ![p] =
                         <<DocData(name, bhash[p], ChunkText(text),
                                   GenerateEmbeddings(ChunkText(text)))>>]
                   /\ bpc' = [bpc EXCEPT ![p] = "store"]
                   /\ UNCHANGED <<bresults, bhash>>
    /\ UNCHANGED bfiles
    /\ UNCHANGED <<storeVars, clockVars, media, queryVars, normVars, searchVars, resultVars, chunkVars, httpVars, scanVars, mcpVars, authVars>>

\* a mutant of the store: the record is written before its embeddings are
DocStoreWithoutEmbeddings(p) ==
    /\ bpc[p] = "store"
    /\ docs' = [docs EXCEPT ![bhash[p]] =
                   Setex(DOC_TTL, JsonDumps([bdoc[p][1] EXCEPT !.embeddings = <<>>]))]
    /\ LET results == Append(bresults[p], bdoc[p][1])
       IN  /\ bresults' = [bresults EXCEPT ![p] = results]
           /\ bpc' = [bpc EXCEPT ![p] = AfterFile(p, results)]
    /\ bdoc' = [bdoc EXCEPT ![p] = <<>>]
    /\ bhash' = [bhash EXCEPT ![p] = NoHash]
    /\ UNCHANGED bfiles
    /\ UNCHANGED <<processed, qcache, clockVars, media, queryVars, normVars, searchVars, resultVars, chunkVars, httpVars, scanVars, mcpVars, authVars>>

\* process_document, the end: the record is stored for 24 hours and returned
DocStore(p) ==
    /\ bpc[p] = "store"
    /\ docs' = [docs EXCEPT ![bhash[p]] = Setex(DOC_TTL, JsonDumps(bdoc[p][1]))]
    /\ LET results == Append(bresults[p], bdoc[p][1])
       IN  /\ bresults' = [bresults EXCEPT ![p] = results]
           /\ bpc' = [bpc EXCEPT ![p] = AfterFile(p, results)]
    /\ bdoc' = [bdoc EXCEPT ![p] = <<>>]
    /\ bhash' = [bhash EXCEPT ![p] = NoHash]
    /\ UNCHANGED bfiles
    /\ UNCHANGED <<processed, qcache, clockVars, media, queryVars, normVars, searchVars, resultVars, chunkVars, httpVars, scanVars, mcpVars, authVars>>

\* process_media_folder, after the loop: the list of names is stored
BatchPublish(p) ==
    /\ bpc[p] = "publish"
    /\ processed' = Setex(DOC_TTL, JsonDumps(ResultKeys(p)))
    /\ bpc' = [bpc EXCEPT ![p] = "done"]
    /\ UNCHANGED <<bfiles, bresults, bhash, bdoc>>
    /\ UNCHANGED <<docs, qcache, clockVars, media, queryVars, normVars, searchVars, resultVars, chunkVars, httpVars, scanVars, mcpVars, authVars>>

\* the folder changes: a file is added, removed or given other bytes
EditFile(n, c) ==
    /\ edits < MaxEdits
    /\ c # media[n]
    /\ media' = [media EXCEPT ![n] = c]
    /\ edits' = edits + 1
    /\ UNCHANGED <<storeVars, now, ticks, calls, queryVars, batchVars, normVars, searchVars, resultVars, chunkVars, httpVars, scanVars, mcpVars, authVars>>

(***************************************************************************)
(* The initial states and the specifications.                              *)
(***************************************************************************)
InitClock == now = 0 /\ ticks = 0 /\ edits = 0 /\ calls = 0

InitQueryProcs ==
    /\ qpc = [p \in QProcs |-> "idle"]
    /\ qquery = [p \in QProcs |-> <<>>]
    /\ qtopk = [p \in QProcs |-> 0]
    /\ qresult = [p \in QProcs |-> <<>>]
    /\ qttl = [p \in QProcs |-> 0]
    /\ qret = [p \in QProcs |-> <<>>]
    /\ qcalls = [p \in QProcs |-> {}]
    /\ qlookup = [p \in QProcs |-> "none"]

InitBatchProcs ==
    /\ bpc = [p \in BProcs |-> "idle"]
    /\ bfiles = [p \in BProcs |-> <<>>]
    /\ bresults = [p \in BProcs |-> <<>>]
    /\ bhash = [p \in BProcs |-> NoHash]
    /\ bdoc = [p \in BProcs |-> <<>>]

InitNormIdle ==
    /\ nstage = "input"
    /\ nquery = <<>>
    /\ nvariant = <<>>
    /\ ntopk = 0
    /\ nkeys = <<>>

InitSearchIdle ==
    /\ sstage = "input"
    /\ squery = <<>>
    /\ stopk = <<>>
    /\ spicks = <<>>
    /\ sresults = <<>>

InitResultIdle ==
    /\ rstage = "input"
    /\ rchunks = <<>>
    /\ rresponse = ""
    /\ rresult = <<>>

InitChunkIdle ==
    /\ cstage = "input"
    /\ ctext = <<>>
    /\ max_chunk_size = 0
    /\ chunk_overlap = 0
    /\ cstart = 0
    /\ cchunks = <<>>
    /\ cwindows = <<>>
    /\ citers = 0

InitHttpIdle ==
    /\ hstage = "request"
    /\ hauthorized = TRUE
    /\ hlimited = FALSE
    /\ hquestion = [length |-> 1, nonblank |-> 1]
    /\ hmaxresults = <<5>>
    /\ hstatus = 0
    /\ hreached = FALSE

InitScanIdle ==
    /\ kstage = "input"
    /\ kquery = <<>>
    /\ ktopk = <<>>
    /\ kfiles = <<>>
    /\ kindex = 0
    /\ kkeys = <<>>
    /\ ksims = <<>>
    /\ kresult = <<>>

InitMcpIdle ==
    /\ rate_limit_per_minute = 0
    /\ request_timestamps = <<>>
    /\ mnow = 0
    /\ mticks = 0
    /\ mcalls = 0
    /\ madmitted = <<>>
    /\ mexecuted = <<>>
    /\ mlast = "none"

InitAuthIdle ==
    /\ astage = "request"
    /\ apath = "/status"
    /\ aclient = <<>>
    /\ axinternal = <<>>
    /\ axforwarded = <<>>
    /\ aconfigured = <<>>
    /\ axapikey = <<>>
    /\ abearer = <<>>

InitEmptyStore ==
    /\ docs = [h \in Hashes |-> <<>>]
    /\ processed = <<>>
    /\ qcache = [k \in Keys |-> <<>>]

\* the services are constructed: nothing is stored yet
Init ==
    /\ InitClock
    /\ InitEmptyStore
    /\ media \in {m \in [Names -> MediaVals] : \A n \in Names : m[n] \in FileVals(n)}
    /\ InitQueryProcs
    /\ InitBatchProcs
    /\ InitNormIdle
    /\ InitSearchIdle
    /\ InitResultIdle
    /\ InitChunkIdle
    /\ InitHttpIdle
    /\ InitScanIdle
    /\ InitMcpIdle
    /\ InitAuthIdle

\* the steps of the process_query calls run by the callers in P
QueryStep(P) ==
    \/ \E p \in P, query \in Queries, top_k \in TopKs : QStart(p, query, top_k)
    \/ \E p \in P : QLookup(p)
    \/ \E p \in P : QCompute(p)
    \/ \E p \in P : QStore(p)

NextQuery == QueryStep(QProcs)

\* the steps of the batches run by the callers in P
BatchStep(P) ==
    \/ \E p \in P, files \in Globs : BatchStart(p, files)
    \/ \E p \in P : DocCheck(p)
    \/ \E p \in P : DocExtractEmbed(p)
    \/ \E p \in P : DocStore(p)
    \/ \E p \in P : BatchPublish(p)

\* the batches of the callers in P, the folder changing under them
IngestStep(P) ==
    \/ BatchStep(P)
    \/ \E n \in Names : \E c \in FileVals(n) : EditFile(n, c)

NextIngest == IngestStep(BProcs)

\* one caller: every process_document call ends before the next begins
NextIngestSeq == IngestStep({"b1"})

Next == NextQuery \/ NextIngest \/ Tick

\* ingestion and querying together
Spec == Init /\ [][Next]_vars

\* ingestion: two batches at a time, the folder changing, time passing
SpecIngest == Init /\ [][NextIngest \/ Tick]_vars

\* ingestion by one caller at a time
SpecIngestSeq == Init /\ [][NextIngestSeq \/ Tick]_vars

\* a record as process_document stores it, read with `left` seconds to live
StoredDoc(name, c, left) ==
    <<[val |-> JsonDumps(DocData(name, FileHash(c), ChunkText(ExtractText(c)),
                                 GenerateEmbeddings(ChunkText(ExtractText(c))))),
       exp |-> left,
       ttl |-> DOC_TTL]>>

StoredFiles(files, left) ==
    <<[val |-> JsonDumps(files), exp |-> left, ttl |-> DOC_TTL]>>

\* the stores that ingestion leaves behind: nothing; one document, just
\* ingested; two documents, ingested 23 hours ago; a.pdf ingested 23 hours
\* ago, rewritten and ingested again just now, which leaves the record of
\* its first bytes behind
Corpora ==
    { [docs |-> [h \in Hashes |-> <<>>], processed |-> <<>>],
      [docs |-> [h \in Hashes |->
                   IF h = FileHash("x") THEN StoredDoc("a.pdf", "x", DOC_TTL) ELSE <<>>],
       processed |-> StoredFiles(<<"a.pdf">>, DOC_TTL)],
      [docs |-> [h \in Hashes |->
                   IF h = FileHash("y") THEN StoredDoc("a.pdf", "y", NO_RESULT_TTL)
                   ELSE IF h = FileHash("x") THEN StoredDoc("b.pdf", "x", NO_RESULT_TTL)
                   ELSE <<>>],
       processed |-> StoredFiles(<<"a.pdf", "b.pdf">>, NO_RESULT_TTL)],
      [docs |-> [h \in Hashes |->
                   IF h = FileHash("x") THEN StoredDoc("a.pdf", "x", NO_RESULT_TTL)
                   ELSE IF h = FileHash("y") THEN StoredDoc("a.pdf", "y", DOC_TTL)
                   ELSE <<>>],
       processed |-> StoredFiles(<<"a.pdf">>, DOC_TTL)] }

\* querying begins on a store that ingestion has filled
InitQuery ==
    /\ InitClock
    /\ \E corpus \in Corpora :
          /\ docs = corpus.docs
          /\ processed = corpus.processed
    /\ qcache = [k \in Keys |-> <<>>]
    /\ media = [n \in Names |-> IF n = "a.pdf" THEN "x" ELSE Absent]
    /\ InitQueryProcs
    /\ InitBatchProcs
    /\ InitNormIdle
    /\ InitSearchIdle
    /\ InitResultIdle
    /\ InitChunkIdle
    /\ InitHttpIdle
    /\ InitScanIdle
    /\ InitMcpIdle
    /\ InitAuthIdle

\* querying: two calls at a time, time passing
SpecQuery == InitQuery /\ [][NextQuery \/ Tick]_vars

\* querying against external calls that may not return
NextQueryLive == NextQuery \/ \E p \in QProcs : QExternalHangs(p)

\* a call that can take a step of its own does take it
FairQuery == \A p \in QProcs : WF_vars(QLookup(p) \/ QCompute(p) \/ QStore(p))

SpecQueryLive == InitQuery /\ [][NextQueryLive]_vars /\ FairQuery

\* a batch begins on a store that earlier batches have filled, over a
\* folder that may have changed since
InitServe ==
    /\ InitClock
    /\ \E corpus \in Corpora :
          /\ docs = corpus.docs
          /\ processed = corpus.processed
    /\ qcache = [k \in Keys |-> <<>>]
    /\ media \in {m \in [Names -> MediaVals] : \A n \in Names : m[n] \in FileVals(n)}
    /\ InitQueryProcs
    /\ InitBatchProcs
    /\ InitNormIdle
    /\ InitSearchIdle
    /\ InitResultIdle
    /\ InitChunkIdle
    /\ InitHttpIdle
    /\ InitScanIdle
    /\ InitMcpIdle
    /\ InitAuthIdle

\* one batch and one query at a time
NextServe == BatchStep({"b1"}) \/ QueryStep({"q1"})

\* querying while a batch ingests
SpecServe == InitServe /\ [][NextServe]_vars

(***************************************************************************)
(* The cache key of respelled queries.                                     *)
(***************************************************************************)
Strings == UNION {[1..n -> Alphabet] : n \in 0..MaxLen}

SwapCase(c) ==
    CASE c = "a" -> "A"
      [] c = "A" -> "a"
      [] c = "b" -> "B"
      [] c = "B" -> "b"
      [] OTHER -> c

\* the spellings one change away from s, as the variations of the caching
\* test are from its first query: a letter in the other case; a whitespace
\* character more or less at either end; a whitespace run one longer or
\* one shorter
Respellings(s) ==
    {[s EXCEPT ![i] = SwapCase(s[i])] : i \in {j \in 1..Len(s) : s[j] \in Letters}}
    \cup {<<w>> \o s : w \in Whitespace}
    \cup {s \o <<w>> : w \in Whitespace}
    \cup (IF s # <<>> /\ s[1] \in Whitespace THEN {Tail(s)} ELSE {})
    \cup (IF s # <<>> /\ s[Len(s)] \in Whitespace
          THEN {SubSeq(s, 1, Len(s) - 1)} ELSE {})
    \cup {SubSeq(s, 1, i) \o <<s[i]>> \o SubSeq(s, i + 1, Len(s)) :
            i \in {j \in 1..Len(s) : s[j] \in Whitespace}}
    \cup {SubSeq(s, 1, i - 1) \o SubSeq(s, i + 1, Len(s)) :
            i \in {j \in 1..(Len(s) - 1) :
                     s[j] \in Whitespace /\ s[j + 1] \in Whitespace}}

\* the query is respelled once more
NormRespell(v) ==
    /\ nstage = "input"
    /\ Len(v) <= MaxLen
    /\ nvariant' = v
    /\ UNCHANGED <<nstage, nquery, ntopk, nkeys>>
    /\ UNCHANGED <<storeVars, clockVars, media, queryVars, batchVars, searchVars, resultVars, chunkVars, httpVars, scanVars, mcpVars, authVars>>

\* _get_query_cache_key is called with the query and with its respelling
NormKeys(top_k) ==
    /\ nstage = "input"
    /\ nstage' = "keyed"
    /\ ntopk' = top_k
    /\ nkeys' = <<GetQueryCacheKey(nquery, top_k), GetQueryCacheKey(nvariant, top_k)>>
    /\ UNCHANGED <<nquery, nvariant>>
    /\ UNCHANGED <<storeVars, clockVars, media, queryVars, batchVars, searchVars, resultVars, chunkVars, httpVars, scanVars, mcpVars, authVars>>

InitNorm ==
    /\ InitClock
    /\ InitEmptyStore
    /\ media = [n \in Names |-> IF n = "a.pdf" THEN "x" ELSE Absent]
    /\ InitQueryProcs
    /\ InitBatchProcs
    /\ nstage = "input"
    /\ nquery \in Strings
    /\ nvariant = nquery
    /\ ntopk = 0
    /\ nkeys = <<>>
    /\ InitSearchIdle
    /\ InitResultIdle
    /\ InitChunkIdle
    /\ InitHttpIdle
    /\ InitScanIdle
    /\ InitMcpIdle
    /\ InitAuthIdle

NextNorm ==
    \/ \E v \in Respellings(nvariant) : NormRespell(v)
    \/ \E top_k \in TopKs : NormKeys(top_k)

\* the cache keys of a query and of its respellings
SpecNorm == InitNorm /\ [][NextNorm]_vars

(***************************************************************************)
(* find_similar_chunks on a store at rest.                                 *)
(***************************************************************************)
\* the top_k a caller can pass: max_results of the /query request model is
\* an Optional[int] without bounds, <<>> being None
SearchTopKs == {<<>>} \cup {<<k>> : k \in -1..4}

\* the names processed_files lists, <<>> when the key is not there
ProcessedFiles == IF ProcessedGet = <<>> THEN <<>> ELSE JsonLoads(ProcessedGet[1])

\* find_similar_chunks is called
Find(query, top_k, pick) ==
    /\ sstage = "input"
    /\ sstage' = "searched"
    /\ squery' = query
    /\ stopk' = top_k
    /\ spicks' = <<pick>>
    /\ sresults' = <<FindSimilarChunks(query, top_k, pick)>>
    /\ UNCHANGED <<storeVars, clockVars, media, queryVars, batchVars, normVars, resultVars, chunkVars, httpVars, scanVars, mcpVars, authVars>>

\* find_similar_chunks is called again with the same arguments
FindAgain(pick) ==
    /\ sstage = "searched"
    /\ sstage' = "repeated"
    /\ spicks' = Append(spicks, pick)
    /\ sresults' = Append(sresults, FindSimilarChunks(squery, stopk, pick))
    /\ UNCHANGED <<squery, stopk>>
    /\ UNCHANGED <<storeVars, clockVars, media, queryVars, batchVars, normVars, resultVars, chunkVars, httpVars, scanVars, mcpVars, authVars>>

InitSearch ==
    /\ InitClock
    /\ \E corpus \in Corpora :
          /\ docs = corpus.docs
          /\ processed = corpus.processed
    /\ qcache = [k \in Keys |-> <<>>]
    /\ media = [n \in Names |-> IF n = "a.pdf" THEN "x" ELSE Absent]
    /\ InitQueryProcs
    /\ InitBatchProcs
    /\ InitNormIdle
    /\ InitSearchIdle
    /\ InitResultIdle
    /\ InitChunkIdle
    /\ InitHttpIdle
    /\ InitScanIdle
    /\ InitMcpIdle
    /\ InitAuthIdle

NextSearch ==
    \/ \E query \in Queries, top_k \in SearchTopKs, pick \in Picks(ProcessedFiles) :
          Find(query, top_k, pick)
    \/ \E pick \in Picks(ProcessedFiles) : FindAgain(pick)

\* searches of a store that nothing changes
SpecSearch == InitSearch /\ [][NextSearch]_vars

(***************************************************************************)
(* The result process_query builds from what find_similar_chunks returned. *)
(***************************************************************************)
\* similarities in thousandths, on both sides of 0.6 and of 0.8
Scores == {-200, 0, 300, 599, 600, 601, 650, 799, 800, 801, 850, 1000}

\* an entry of similar_chunks
ScoredChunk(i, similarity) ==
    [file_name |-> "a.pdf",
     chunk_index |-> i - 1,
     chunk_text |-> <<"x", i>>,
     similarity |-> similarity,
     file_path |-> FilePath("a.pdf")]

\* the lists find_similar_chunks can return: sorted by decreasing similarity
ScoredLists ==
    {<<>>}
    \cup {<<ScoredChunk(1, s1)>> : s1 \in Scores}
    \cup {<<ScoredChunk(1, s[1]), ScoredChunk(2, s[2])>> :
            s \in {t \in Scores \X Scores : t[1] >= t[2]}}

\* the result of the branch `if not similar_chunks` or of the one after it
BuildResult(query, response) ==
    /\ rstage = "input"
    /\ rstage' = "built"
    /\ rresponse' = response
    /\ rresult' = <<IF rchunks = <<>> THEN NoResult(query)
                    ELSE FoundResult(query, rchunks, response)>>
    /\ UNCHANGED rchunks
    /\ UNCHANGED <<storeVars, clockVars, media, queryVars, batchVars, normVars, searchVars, chunkVars, httpVars, scanVars, mcpVars, authVars>>

InitResult ==
    /\ InitClock
    /\ InitEmptyStore
    /\ media = [n \in Names |-> IF n = "a.pdf" THEN "x" ELSE Absent]
    /\ InitQueryProcs
    /\ InitBatchProcs
    /\ InitNormIdle
    /\ InitSearchIdle
    /\ InitChunkIdle
    /\ InitHttpIdle
    /\ InitScanIdle
    /\ InitMcpIdle
    /\ InitAuthIdle
    /\ rstage = "input"
    /\ rchunks \in ScoredLists
    /\ rresponse = ""
    /\ rresult = <<>>

NextResult == \E query \in Queries, response \in Generations : BuildResult(query, response)

\* results built from lists of scored chunks
SpecResult == InitResult /\ [][NextResult]_vars

(***************************************************************************)
(* DocumentProcessor.chunk_text, character by character.  Positions are    *)
(* counted from 0 as in the source; a text is a sequence of characters.    *)
(***************************************************************************)
\* the characters str.strip() removes
TextWhitespace == Whitespace \cup {"\n"}

RECURSIVE LStripText(_)
LStripText(s) ==
    IF s # <<>> /\ s[1] \in TextWhitespace THEN LStripText(Tail(s)) ELSE s

RECURSIVE RStripText(_)
RStripText(s) ==
    IF s # <<>> /\ s[Len(s)] \in TextWhitespace
    THEN RStripText(SubSeq(s, 1, Len(s) - 1)) ELSE s

\* str.strip()
StripText(s) == RStripText(LStripText(s))

\* a slice bound as Python reads it: a negative one counts from the end,
\* and the result is kept within 0..n
SliceIndex(i, n) ==
    IF i < 0 THEN (IF n + i < 0 THEN 0 ELSE n + i)
    ELSE IF i > n THEN n ELSE i

\* text[start:end]
Slice(text, start, end) ==
    SubSeq(text, SliceIndex(start, Len(text)) + 1, SliceIndex(end, Len(text)))

\* the positions at which sub lies within text[start:end]
Occurrences(text, sub, start, end) ==
    {i \in SliceIndex(start, Len(text))..(SliceIndex(end, Len(text)) - Len(sub)) :
        SubSeq(text, i + 1, i + Len(sub)) = sub}

\* text.rfind(sub, start, end): the last of them, -1 when there is none
RFind(text, sub, start, end) ==
    LET found == Occurrences(text, sub, start, end)
    IN  IF found = {} THEN -1
        ELSE CHOOSE i \in found : \A j \in found : j <= i

\* x > start + max_chunk_size * 0.8, in integers
InLastFifth(x, start, size) == 5 * x > 5 * start + 4 * size

\* a mutant of the break point: the window ends one character after the
\* character that follows the full stop
WindowEndPastBreak(text, start, size) ==
    LET end == start + size
        last_period == RFind(text, <<".">>, start, end)
        last_newline == RFind(text, <<"\n", "\n">>, start, end)
    IN  IF end < Len(text)
        THEN IF InLastFifth(last_period, start, size) THEN last_period + 2
             ELSE IF InLastFifth(last_newline, start, size) THEN last_newline + 2
             ELSE end
        ELSE end

\* the end of the window that starts at start: start + max_chunk_size, moved
\* back to the last sentence or paragraph break when more text follows
WindowEnd(text, start, size) ==
    LET end == start + size
        last_period == RFind(text, <<".">>, start, end)
        last_newline == RFind(text, <<"\n", "\n">>, start, end)
    IN  IF end < Len(text)
        THEN IF InLastFifth(last_period, start, size) THEN last_period + 1
             ELSE IF InLastFifth(last_newline, start, size) THEN last_newline + 2
             ELSE end
        ELSE end

\* a mutant of the next start: the window after leaves one character out
NextStartSkipsOne(end, overlap) == end - overlap + 1

\* start = end - self.chunk_overlap
NextStart(end, overlap) == end - overlap

\* chunk_text is called: a text that fits is returned as the only chunk
ChunkTextCall ==
    /\ cstage = "input"
    /\ IF Len(ctext) <= max_chunk_size
       THEN /\ cstage' = "done"
            /\ cchunks' = <<ctext>>
       ELSE /\ cstage' = "loop"
            /\ cchunks' = <<>>
    /\ cstart' = 0
    /\ UNCHANGED <<ctext, max_chunk_size, chunk_overlap, cwindows, citers>>
    /\ UNCHANGED <<storeVars, clockVars, media, queryVars, batchVars, normVars, searchVars, resultVars, httpVars, scanVars, mcpVars, authVars>>

\* one iteration of `while start < len(text)`
ChunkIter ==
    /\ cstage = "loop"
    /\ cstart < Len(ctext)
    /\ citers < MaxIters
    /\ LET end == WindowEnd(ctext, cstart, max_chunk_size)
           chunk == StripText(Slice(ctext, cstart, end))
       IN  /\ cchunks' = IF chunk # <<>> THEN Append(cchunks, chunk) ELSE cchunks
           /\ cwindows' = Append(cwindows, <<cstart, end>>)
           /\ cstart' = NextStart(end, chunk_overlap)
    /\ citers' = citers + 1
    /\ UNCHANGED <<cstage, ctext, max_chunk_size, chunk_overlap>>
    /\ UNCHANGED <<storeVars, clockVars, media, queryVars, batchVars, normVars, searchVars, resultVars, httpVars, scanVars, mcpVars, authVars>>

\* the loop condition fails: return chunks
ChunkReturn ==
    /\ cstage = "loop"
    /\ cstart >= Len(ctext)
    /\ cstage' = "done"
    /\ UNCHANGED <<ctext, max_chunk_size, chunk_overlap, cstart, cchunks, cwindows, citers>>
    /\ UNCHANGED <<storeVars, clockVars, media, queryVars, batchVars, normVars, searchVars, resultVars, httpVars, scanVars, mcpVars, authVars>>

\* the texts: letters with at most one full stop, at most one blank line
\* and a space at either end
Plain(n) == [i \in 1..n |-> "a"]
WithPeriod(t) == {t} \cup {[t EXCEPT ![i] = "."] : i \in 1..Len(t)}
WithBlankLine(t) ==
    {t} \cup {[t EXCEPT ![i] = "\n", ![i + 1] = "\n"] : i \in 1..(Len(t) - 1)}
WithSpaces(t) ==
    {t} \cup (IF t = <<>> THEN {}
              ELSE {[t EXCEPT ![1] = " "], [t EXCEPT ![Len(t)] = " "],
                    [t EXCEPT ![1] = " ", ![Len(t)] = " "]})
Texts ==
    UNION {UNION {UNION {WithSpaces(u) : u \in WithBlankLine(t)} :
                     t \in WithPeriod(Plain(n))} : n \in 0..MaxTextLen}

\* MAX_CHUNK_SIZE and CHUNK_OVERLAP are read from the environment with
\* int() and nothing else: any pair of integers is a configuration
ChunkConfigs ==
    {<<4, 0>>, <<4, 1>>, <<4, 3>>, <<4, 4>>, <<4, 5>>,
     <<16, 0>>, <<16, 2>>, <<16, 13>>, <<16, 14>>, <<16, 15>>, <<16, 16>>}

InitChunk ==
    /\ InitClock
    /\ InitEmptyStore
    /\ media = [n \in Names |-> IF n = "a.pdf" THEN "x" ELSE Absent]
    /\ InitQueryProcs
    /\ InitBatchProcs
    /\ InitNormIdle
    /\ InitSearchIdle
    /\ InitResultIdle
    /\ InitHttpIdle
    /\ InitScanIdle
    /\ InitMcpIdle
    /\ InitAuthIdle
    /\ cstage = "input"
    /\ ctext \in Texts
    /\ \E config \in ChunkConfigs :
          /\ max_chunk_size = config[1]
          /\ chunk_overlap = config[2]
    /\ cstart = 0
    /\ cchunks = <<>>
    /\ cwindows = <<>>
    /\ citers = 0

NextChunk == ChunkTextCall \/ ChunkIter \/ ChunkReturn

\* chunk_text on every text under every configuration
SpecChunk == InitChunk /\ [][NextChunk]_vars

(***************************************************************************)
(* main.py: POST /query.  A question is held as its length and the number  *)
(* of its characters that are not whitespace.                              *)
(***************************************************************************)
\* the questions a client can send
Questions ==
    {q \in {[length |-> n, nonblank |-> k] :
               n \in {0, 1, 2, MAX_QUESTION_LENGTH - 1, MAX_QUESTION_LENGTH,
                      MAX_QUESTION_LENGTH + 1, 2 * MAX_QUESTION_LENGTH},
               k \in {0, 1, 2}} :
        q.nonblank <= q.length}

\* Field(..., min_length=1, max_length=500)
ValidQuestion(question) ==
    MIN_QUESTION_LENGTH <= question.length /\ question.length <= MAX_QUESTION_LENGTH

\* question.strip(), as the truth value the handler tests
StrippedNonEmpty(question) == question.nonblank > 0

\* the request ends before the body of query_documents: verify_api_key
\* raises 401, the request model does not validate (422), or the limiter
\* raises RateLimitExceeded (429)
RejectedBeforeHandler ==
    /\ hstage = "request"
    /\ hstage' = "responded"
    /\ \/ /\ ~hauthorized
          /\ hstatus' = 401
       \/ /\ hauthorized
          /\ ~ValidQuestion(hquestion)
          /\ hstatus' = 422
       \/ /\ hauthorized
          /\ ValidQuestion(hquestion)
          /\ hlimited
          /\ hstatus' = 429
    /\ UNCHANGED <<hauthorized, hlimited, hquestion, hmaxresults, hreached>>
    /\ UNCHANGED <<storeVars, clockVars, media, queryVars, batchVars, normVars, searchVars, resultVars, chunkVars, scanVars, mcpVars, authVars>>

\* the body of query_documents: the HTTPException(400) of the blank check is
\* raised inside the try block, whose `except Exception` turns whatever is
\* raised there into HTTPException(500); process_query returns or raises
QueryDocuments ==
    /\ hstage = "request"
    /\ hauthorized
    /\ ValidQuestion(hquestion)
    /\ ~hlimited
    /\ hstage' = "responded"
    /\ IF ~StrippedNonEmpty(hquestion)
       THEN /\ hstatus' = 500
            /\ hreached' = FALSE
       ELSE /\ hreached' = TRUE
            /\ \E outcome \in {"returned", "raised"} :
                  hstatus' = IF outcome = "returned" THEN 200 ELSE 500
    /\ UNCHANGED <<hauthorized, hlimited, hquestion, hmaxresults>>
    /\ UNCHANGED <<storeVars, clockVars, media, queryVars, batchVars, normVars, searchVars, resultVars, chunkVars, scanVars, mcpVars, authVars>>

InitHttp ==
    /\ InitClock
    /\ InitEmptyStore
    /\ media = [n \in Names |-> IF n = "a.pdf" THEN "x" ELSE Absent]
    /\ InitQueryProcs
    /\ InitBatchProcs
    /\ InitNormIdle
    /\ InitSearchIdle
    /\ InitResultIdle
    /\ InitChunkIdle
    /\ InitScanIdle
    /\ InitMcpIdle
    /\ InitAuthIdle
    /\ hstage = "request"
    /\ hauthorized \in BOOLEAN
    /\ hlimited \in BOOLEAN
    /\ hquestion \in Questions
    /\ hmaxresults \in SearchTopKs
    /\ hstatus = 0
    /\ hreached = FALSE

NextHttp == RejectedBeforeHandler \/ QueryDocuments

\* requests to POST /query
SpecHttp == InitHttp /\ [][NextHttp]_vars

(***************************************************************************)
(* find_similar_chunks key by key: scan_iter gives the keys that match     *)
(* doc:*, and each of them is read with a GET of its own afterwards.       *)
(***************************************************************************)
\* the doc:* keys that are there
PresentDocs == {h \in Hashes : DocGet(h) # <<>>}

\* the orders in which scan_iter can give them
ScanOrders ==
    {order \in UNION {[1..n -> PresentDocs] : n \in {Cardinality(PresentDocs)}} :
        \A i, j \in 1..Len(order) : order[i] = order[j] => i = j}

\* the inner loop over the keys for one file name: json.loads of the GET of
\* a key that is gone raises TypeError; the first record of that name ends
\* the loop
RECURSIVE ReadUntilMatch(_, _)
ReadUntilMatch(keys, file_name) ==
    IF keys = <<>> THEN <<"no record", NoHash>>
    ELSE IF DocGet(keys[1]) = <<>> THEN <<"raised", NoHash>>
    ELSE IF JsonLoads(DocGet(keys[1])[1]).file_name = file_name
         THEN <<"match", keys[1]>>
    ELSE ReadUntilMatch(Tail(keys), file_name)

\* find_similar_chunks is called: processed_files is read
SearchStart(query, top_k) ==
    /\ kstage = "input"
    /\ kquery' = query
    /\ ktopk' = top_k
    /\ IF ProcessedGet = <<>>
       THEN /\ kstage' = "returned"
            /\ kfiles' = <<>>
            /\ kindex' = 0
       ELSE /\ kstage' = "scan"
            /\ kfiles' = JsonLoads(ProcessedGet[1])
            /\ kindex' = 1
    /\ UNCHANGED <<kkeys, ksims, kresult>>
    /\ UNCHANGED <<storeVars, clockVars, media, queryVars, batchVars, normVars, searchVars, resultVars, chunkVars, httpVars, mcpVars, authVars>>

\* scan_iter(match="doc:*") for the next file name
ScanIter(order) ==
    /\ kstage = "scan"
    /\ kindex <= Len(kfiles)
    /\ kkeys' = order
    /\ kstage' = "read"
    /\ UNCHANGED <<kquery, ktopk, kfiles, kindex, ksims, kresult>>
    /\ UNCHANGED <<storeVars, clockVars, media, queryVars, batchVars, normVars, searchVars, resultVars, chunkVars, httpVars, mcpVars, authVars>>

\* the keys are read one by one
ReadKeys ==
    /\ kstage = "read"
    /\ LET read == ReadUntilMatch(kkeys, kfiles[kindex])
       IN  IF read[1] = "raised"
           THEN /\ kstage' = "raised"
                /\ UNCHANGED <<kindex, ksims>>
           ELSE /\ kstage' = "scan"
                /\ kindex' = kindex + 1
                /\ ksims' = ksims \o DocSimilarities(EncodeQuery(kquery),
                                                    kfiles[kindex], read[2])
    /\ UNCHANGED <<kquery, ktopk, kfiles, kkeys, kresult>>
    /\ UNCHANGED <<storeVars, clockVars, media, queryVars, batchVars, normVars, searchVars, resultVars, chunkVars, httpVars, mcpVars, authVars>>

\* every file name has been looked for: sort and return
SearchReturn ==
    /\ kstage = "scan"
    /\ kindex > Len(kfiles)
    /\ kresult' = Take(SortDesc(ksims), ktopk)
    /\ kstage' = "returned"
    /\ UNCHANGED <<kquery, ktopk, kfiles, kindex, kkeys, ksims>>
    /\ UNCHANGED <<storeVars, clockVars, media, queryVars, batchVars, normVars, searchVars, resultVars, chunkVars, httpVars, mcpVars, authVars>>

InitScan ==
    /\ InitClock
    /\ \E corpus \in Corpora :
          /\ docs = corpus.docs
          /\ processed = corpus.processed
    /\ qcache = [k \in Keys |-> <<>>]
    /\ media = [n \in Names |-> IF n = "a.pdf" THEN "x" ELSE Absent]
    /\ InitQueryProcs
    /\ InitBatchProcs
    /\ InitNormIdle
    /\ InitSearchIdle
    /\ InitResultIdle
    /\ InitChunkIdle
    /\ InitHttpIdle
    /\ InitScanIdle
    /\ InitMcpIdle
    /\ InitAuthIdle

NextScan ==
    \/ \E query \in Queries, top_k \in SearchTopKs : SearchStart(query, top_k)
    \/ \E order \in ScanOrders : ScanIter(order)
    \/ ReadKeys
    \/ SearchReturn
    \/ Tick

\* one search while the records of the store expire
SpecScan == InitScan /\ [][NextScan]_vars

(***************************************************************************)
(* mcp_server/main.py: the rate limit of the MCP server and the paths that *)
(* run a tool.  Handlers are coroutines of one event loop and              *)
(* _check_rate_limit does not await: each call of it is one step.          *)
(***************************************************************************)
\* the tools of the server; any other name is answered "Unknown tool"
Tools == {"query_manuals", "get_system_status", "process_documents"}
ToolNames == Tools \cup {"other"}

\* the HTTP routes that run a tool, with the tool each runs
ToolRoutes ==
    {<<"/query", "query_manuals">>, <<"/status", "get_system_status">>,
     <<"/process", "process_documents">>}
    \cup {<<"/call", name>> : name \in ToolNames}

\* the configured limits
RateLimits == {1, 2, 3}

\* by how many seconds the clock advances between two requests
ClockSteps == {1, RATE_WINDOW - 1, RATE_WINDOW}

\* a mutant of the pruning: a timestamp is dropped a second early
RecentTimestampsDroppedEarly(timestamps, current_time) ==
    SelectSeq(timestamps, LAMBDA ts : current_time - ts < RATE_WINDOW - 1)

\* [ts for ts in self.request_timestamps if current_time - ts < 60]
RecentTimestamps(timestamps, current_time) ==
    SelectSeq(timestamps, LAMBDA ts : current_time - ts < RATE_WINDOW)

\* _check_rate_limit returns True
Admits(timestamps, current_time) ==
    Len(RecentTimestamps(timestamps, current_time)) < rate_limit_per_minute

\* the stdio handler call_tool: _check_rate_limit, then the tool of that
\* name if there is one
CallTool(name) ==
    /\ mcalls < MaxMcpCalls
    /\ mcalls' = mcalls + 1
    /\ IF Admits(request_timestamps, mnow)
       THEN /\ request_timestamps' =
                   Append(RecentTimestamps(request_timestamps, mnow), mnow)
            /\ madmitted' = Append(madmitted, mnow)
            /\ mlast' = "admitted"
            /\ mexecuted' = IF name \in Tools THEN Append(mexecuted, mnow)
                            ELSE mexecuted
       ELSE /\ request_timestamps' = RecentTimestamps(request_timestamps, mnow)
            /\ mlast' = "rejected"
            /\ UNCHANGED <<madmitted, mexecuted>>
    /\ UNCHANGED <<rate_limit_per_minute, mnow, mticks>>
    /\ UNCHANGED <<storeVars, clockVars, media, queryVars, batchVars, normVars, searchVars, resultVars, chunkVars, httpVars, scanVars, authVars>>

\* a request to /call, /query, /status or /process: the tool is run
HttpToolRoute(route) ==
    /\ mcalls < MaxMcpCalls
    /\ mcalls' = mcalls + 1
    /\ mexecuted' = IF route[2] \in Tools THEN Append(mexecuted, mnow) ELSE mexecuted
    /\ UNCHANGED <<rate_limit_per_minute, request_timestamps, mnow, mticks, madmitted, mlast>>
    /\ UNCHANGED <<storeVars, clockVars, media, queryVars, batchVars, normVars, searchVars, resultVars, chunkVars, httpVars, scanVars, authVars>>

\* time passes between two requests
McpClock(d) ==
    /\ mticks < MaxMcpTicks
    /\ mticks' = mticks + 1
    /\ mnow' = mnow + d
    /\ mlast' = "none"
    /\ UNCHANGED <<rate_limit_per_minute, request_timestamps, mcalls, madmitted, mexecuted>>
    /\ UNCHANGED <<storeVars, clockVars, media, queryVars, batchVars, normVars, searchVars, resultVars, chunkVars, httpVars, scanVars, authVars>>

InitMcp ==
    /\ InitClock
    /\ InitEmptyStore
    /\ media = [n \in Names |-> IF n = "a.pdf" THEN "x" ELSE Absent]
    /\ InitQueryProcs
    /\ InitBatchProcs
    /\ InitNormIdle
    /\ InitSearchIdle
    /\ InitResultIdle
    /\ InitChunkIdle
    /\ InitHttpIdle
    /\ InitScanIdle
    /\ InitAuthIdle
    /\ rate_limit_per_minute \in RateLimits
    /\ request_timestamps = <<>>
    /\ mnow = 0
    /\ mticks = 0
    /\ mcalls = 0
    /\ madmitted = <<>>
    /\ mexecuted = <<>>
    /\ mlast = "none"

NextMcpStdio ==
    \/ \E name \in ToolNames : CallTool(name)
    \/ \E d \in ClockSteps : McpClock(d)

NextMcp ==
    \/ NextMcpStdio
    \/ \E route \in ToolRoutes : HttpToolRoute(route)

\* requests over stdio only: every one passes _check_rate_limit
SpecMcpStdio == InitMcp /\ [][NextMcpStdio]_vars

\* requests over stdio and over HTTP
SpecMcp == InitMcp /\ [][NextMcp]_vars

(***************************************************************************)
(* main.py: verify_api_key.  Addresses and header values that are searched *)
(* are sequences of characters; a header that is absent is <<>>, one that  *)
(* is present is <<value>>.                                                *)
(***************************************************************************)
\* the paths that need no key
PublicPaths == {"/", "/docs", "/openapi.json", "/health", "/status"}

\* internal_sources
InternalSources ==
    {<<"1", "2", "7", ".", "0", ".", "0", ".", "1">>,
     <<":", ":", "1">>,
     <<"l", "o", "c", "a", "l", "h", "o", "s", "t">>,
     <<"1", "7", "2", ".", "2", "0", ".", "0", ".">>,
     <<"1", "7", "2", ".", "1", "7", ".", "0", ".">>,
     <<"1", "7", "2", ".", "1", "8", ".", "0", ".">>,
     <<"1", "7", "2", ".", "1", "9", ".", "0", ".">>,
     <<"1", "9", "2", ".", "1", "6", "8", ".">>,
     <<"1", "0", ".", "0", ".">>}

\* the address of the nginx container
NginxAddress == <<"1", "7", "2", ".", "2", "0", ".", "0", ".", "5">>

\* client_ip.startswith(prefix)
StartsWith(s, prefix) ==
    Len(prefix) <= Len(s) /\ SubSeq(s, 1, Len(prefix)) = prefix

\* sub in s
Contains(s, sub) ==
    \E i \in 0..(Len(s) - Len(sub)) : SubSeq(s, i + 1, i + Len(sub)) = sub

IsInternalIp(client_ip) == \E prefix \in InternalSources : StartsWith(client_ip, prefix)

\* the truth value of an optional string: set and not empty
Truthy(value) == value # <<>> /\ value[1] # ""

\* the clients: the loopback address, an address of the 10.0. network, and
\* two addresses from outside
ExternalIp == <<"2", "0", "3", ".", "0", ".", "1", "1", "3", ".", "9">>
ClientIps ==
    {<<"1", "2", "7", ".", "0", ".", "0", ".", "1">>,
     <<"1", "0", ".", "0", ".", "0", ".", "4">>,
     <<"1", "0", ".", "1", ".", "2", ".", "3">>,
     ExternalIp}

\* the values of x-forwarded-for: none, the client's own address, the
\* address of the nginx container
ForwardedFors == {<<>>, ExternalIp, NginxAddress}

\* what a client can put in a header that carries a key or a flag
HeaderValues == {<<>>, <<"">>, <<"key">>, <<"other">>}

\* verify_api_key: the checks in their order; the last one raises 401
VerifyApiKey ==
    /\ astage = "request"
    /\ astage' =
          IF apath \in PublicPaths THEN "granted"
          ELSE IF IsInternalIp(aclient) \/ Contains(axforwarded, NginxAddress)
                  \/ Truthy(axinternal) THEN "granted"
          ELSE IF ~Truthy(aconfigured) THEN "granted"
          ELSE IF Truthy(axapikey) /\ axapikey = aconfigured THEN "granted"
          ELSE IF abearer # <<>> /\ abearer = aconfigured THEN "granted"
          ELSE "401"
    /\ UNCHANGED <<apath, aclient, axinternal, axforwarded, aconfigured, axapikey, abearer>>
    /\ UNCHANGED <<storeVars, clockVars, media, queryVars, batchVars, normVars, searchVars, resultVars, chunkVars, httpVars, scanVars, mcpVars>>

InitAuth ==
    /\ InitClock
    /\ InitEmptyStore
    /\ media = [n \in Names |-> IF n = "a.pdf" THEN "x" ELSE Absent]
    /\ InitQueryProcs
    /\ InitBatchProcs
    /\ InitNormIdle
    /\ InitSearchIdle
    /\ InitResultIdle
    /\ InitChunkIdle
    /\ InitHttpIdle
    /\ InitScanIdle
    /\ InitMcpIdle
    /\ astage = "request"
    /\ apath \in {"/status", "/query", "/process-documents"}
    /\ aclient \in ClientIps
    /\ axinternal \in {<<>>, <<"">>, <<"true">>}
    /\ axforwarded \in ForwardedFors
    /\ aconfigured \in {<<>>, <<"key">>}
    /\ axapikey \in HeaderValues
    /\ abearer \in HeaderValues

NextAuth == VerifyApiKey

\* requests through verify_api_key
SpecAuth == InitAuth /\ [][NextAuth]_vars

(***************************************************************************)
(* The claims.                                                             *)
(***************************************************************************)
\* the step of QLookup by p: the call leaves the lookup
LookupStep(p) == qpc[p] = "lookup" /\ qpc'[p] # "lookup"

\* what the cache holds for the key of p's call
CachedResponse(p) == JsonLoads(QueryGet(QKey(p))[1])

\* C1, as claimed: whenever an unexpired entry exists for the key of a
\* process_query call at its lookup, the call returns the stored response
\* and invokes neither the embedding, nor the search, nor the generation.
C1_HitWheneverEntryExists ==
    [][\A p \in QProcs :
          (LookupStep(p) /\ QueryGet(QKey(p)) # <<>>)
          => /\ qpc'[p] = "done"
             /\ qret'[p] = <<CachedResponse(p)>>
             /\ qcalls'[p] = {}]_vars

\* C1, amended: whenever an unexpired entry exists for the key of a
\* process_query call at its lookup and the lookup does not raise, the call
\* returns the stored response and invokes neither the embedding, nor the
\* search, nor the generation.
C1_HitUnlessLookupRaises ==
    [][\A p \in QProcs :
          (LookupStep(p) /\ QueryGet(QKey(p)) # <<>> /\ qlookup'[p] # "error")
          => /\ qpc'[p] = "done"
             /\ qret'[p] = <<CachedResponse(p)>>
             /\ qcalls'[p] = {}]_vars

\* C1, the case: a call has returned the response another call stored
C1_Witness ==
    \E p \in QProcs :
        /\ qpc[p] = "done"
        /\ qlookup[p] = "hit"
        /\ qcalls[p] = {}
        /\ QueryGet(QKey(p)) # <<>>
        /\ qret[p] = <<CachedResponse(p)>>
        /\ qret[p][1].total_sources > 0

\* the step of QStore by p, in a call whose lookup found no entry
StoreStepAfterMiss(p) ==
    qpc[p] = "store" /\ qlookup[p] = "miss" /\ qpc'[p] = "done"

\* C2: while an entry of the query cache is unexpired its value does not
\* change, and every call for its key that returns meanwhile returns that
\* value, whatever the interleaving of the calls (here for the calls whose
\* lookup did not raise).
C2_OneResponseWhileUnexpired ==
    [][\A p \in QProcs :
          StoreStepAfterMiss(p)
          => /\ (QueryGet(QKey(p)) # <<>> /\ QueryGet(QKey(p))' # <<>>)
                => QueryGet(QKey(p))' = QueryGet(QKey(p))
             /\ QueryGet(QKey(p))' # <<>>
                => qret'[p] = <<JsonLoads(QueryGet(QKey(p))'[1])>>]_vars

\* C3: the miss path of process_query runs at most once per key and TTL
\* window: no call that found the cache empty for its key embeds, searches
\* and generates while an unexpired entry for that key exists (a call whose
\* lookup raised is left aside: it misses by design).
C3_MissPathOncePerWindow ==
    [][\A p \in QProcs :
          (qpc[p] = "search" /\ qlookup[p] = "miss" /\ qpc'[p] # "search")
          => QueryGet(QKey(p)) = <<>>]_vars

\* C7: a storage failure never fails the query path: no process_query call
\* ends by the exception of a store operation.
C7_StoreFailureNeverFailsQuery ==
    \A p \in QProcs : qpc[p] # "raised"

\* C8: an entry of the query cache holds a response without sources
\* exactly when it was stored with the short TTL, and a response with at
\* least one source exactly when it was stored with the long TTL.
C8_TtlBySourceCount ==
    \A key \in Keys :
        qcache[key] # <<>> =>
            LET entry == qcache[key][1]
                sources == JsonLoads(entry.val).sources
            IN  /\ entry.ttl \in {NO_RESULT_TTL, QUERY_CACHE_TTL}
                /\ (Len(sources) = 0) <=> (entry.ttl = NO_RESULT_TTL)
                /\ (Len(sources) >= 1) <=> (entry.ttl = QUERY_CACHE_TTL)

\* C8, the case: the cache holds an entry of either class
C8_Witness ==
    \E k1, k2 \in Keys :
        /\ qcache[k1] # <<>> /\ qcache[k2] # <<>>
        /\ JsonLoads(qcache[k1][1].val).sources = <<>>
        /\ qcache[k1][1].ttl = NO_RESULT_TTL
        /\ JsonLoads(qcache[k2][1].val).sources # <<>>
        /\ qcache[k2][1].ttl = QUERY_CACHE_TTL

\* the step of DocCheck by p
CheckStep(p) ==
    /\ bpc[p] = "check"
    /\ <<bpc[p], bresults[p], bhash[p]>>' # <<bpc[p], bresults[p], bhash[p]>>

\* the step of DocExtractEmbed by p in which the embeddings are computed
EmbedStep(p) == bpc[p] = "extract" /\ bpc'[p] = "store"

\* C4: concurrent process_document calls for one content hash compute the
\* embeddings at most once: no call computes them while the record of its
\* hash is stored or another call holds the embeddings of that hash,
\* about to store them.
C4_EmbedOncePerHash ==
    [][\A p \in BProcs :
          EmbedStep(p)
          => /\ DocGet(bhash[p]) = <<>>
             /\ \A r \in BProcs \ {p} :
                   ~(bpc[r] = "store" /\ bhash[r] = bhash[p])]_vars

\* C5: one caller at a time, a process_document call on bytes whose record
\* is stored and unexpired returns that record, under the hash of the
\* bytes, and leaves the store as it is; the embeddings are never computed
\* for a hash whose record is stored and unexpired.
C5_SecondIngestionIsCacheHit ==
    [][\A p \in BProcs :
          /\ (CheckStep(p) /\ media[CurrentFile(p)] # Absent
                 /\ DocGet(FileHash(media[CurrentFile(p)])) # <<>>)
             => LET h == FileHash(media[CurrentFile(p)])
                    record == JsonLoads(DocGet(h)[1])
                IN  /\ bresults'[p] = Append(bresults[p], record)
                    /\ record.file_hash = h
                    /\ bpc'[p] \in {"check", "publish"}
                    /\ docs' = docs
          /\ EmbedStep(p) => DocGet(bhash[p]) = <<>>]_vars

\* C5, the case: a batch has ingested a.pdf and then b.pdf, a copy of it,
\* and the second call has returned the record of the first
C5_Witness ==
    \E p \in BProcs :
        /\ bpc[p] = "done"
        /\ bfiles[p] = <<"a.pdf", "b.pdf">>
        /\ bresults[p][1] = bresults[p][2]
        /\ bresults[p][1] = DocData("a.pdf", FileHash("x"), ChunkText(ExtractText("x")),
                                    GenerateEmbeddings(ChunkText(ExtractText("x"))))
        /\ DocGet(FileHash("x")) = <<JsonDumps(bresults[p][1])>>

\* C6: a document record is never changed in place: while doc:<hash> is
\* unexpired every read of it returns the same record.
C6_RecordNeverChangedInPlace ==
    [][\A h \in Hashes :
          (DocGet(h) # <<>> /\ DocGet(h)' # <<>>) => DocGet(h)' = DocGet(h)]_vars

\* C10: a failure of the embedding backend on one file does not abort the
\* batch, and a batch that has ended holds one result per file.
C10_BatchFailureIsolation ==
    \A p \in BProcs :
        /\ bpc[p] # "raised_embed"
        /\ bpc[p] = "done" => Len(bresults[p]) = Len(bfiles[p])

\* the step of DocExtractEmbed by p
ExtractStep(p) == bpc[p] = "extract" /\ bpc'[p] # "extract"

\* the texts of the model that are empty or hold whitespace only
TextsWithoutText == {<<>>, <<"\n", "e">>}

\* C11: when the extraction yields empty or whitespace-only text,
\* process_document returns the error result and no doc:<hash> record is
\* written: the document records are as they were before the step.
C11_NoTextNoRecord ==
    [][\A p \in BProcs :
          (ExtractStep(p) /\ ExtractText(media[CurrentFile(p)]) \in TextsWithoutText)
          => /\ bresults'[p] = Append(bresults[p], DocError(CurrentFile(p)))
             /\ docs' = docs
             /\ bdoc'[p] = <<>>]_vars

\* C11, the case: a batch has ended over a PDF without text, whose result
\* is the error result and whose hash has no record
C11_Witness ==
    \E p \in BProcs :
        /\ bpc[p] = "done"
        /\ media["b.pdf"] = "e"
        /\ \E i \in 1..Len(bfiles[p]) :
               /\ bfiles[p][i] = "b.pdf"
               /\ bresults[p][i] = DocError("b.pdf")
        /\ DocGet(FileHash("e")) = <<>>

\* the step of BatchPublish by p: the batch completes
PublishStep(p) == bpc[p] = "publish" /\ bpc'[p] = "done"

\* the names of a list, as a set
NameSet(files) == {files[i] : i \in 1..Len(files)}

\* C12: what a reader gets for processed_files changes only when the value
\* expires or when a batch completes, and then to the complete list of
\* that batch's files: no step of a batch in progress, and no batch that
\* aborts, publishes a list.
C12_IndexOnlyAtBatchCompletion ==
    [][ProcessedGet' # ProcessedGet
          => \/ ProcessedGet' = <<>> /\ now' # now
             \/ \E p \in BProcs :
                   /\ PublishStep(p)
                   /\ Len(bresults[p]) = Len(bfiles[p])
                   /\ ProcessedGet' = <<JsonDumps(bfiles[p])>>]_vars

\* C12, the case: a batch over two files has aborted on an exception of
\* the embedding backend and the index still holds the list of the batch
\* before it, which listed one file
C12_Witness ==
    \E p \in BProcs :
        /\ bpc[p] = "raised_embed"
        /\ Len(bfiles[p]) = 2
        /\ ProcessedGet # <<>>
        /\ Len(JsonLoads(ProcessedGet[1])) = 1
        /\ JsonLoads(ProcessedGet[1]) # bfiles[p]

\* C13: when process_media_folder completes, processed_files holds exactly
\* the names of the files of that batch, whatever it held before.
C13_IndexReplacedWholesale ==
    [][\A p \in BProcs :
          PublishStep(p)
          => /\ ProcessedGet' # <<>>
             /\ NameSet(JsonLoads(ProcessedGet'[1])) = NameSet(bfiles[p])
             /\ Len(JsonLoads(ProcessedGet'[1])) = Len(bfiles[p])]_vars

\* C13, the case: a batch has completed over a folder that has lost a
\* file since the batch before: the index has dropped the name
C13_Witness ==
    \E p \in BProcs :
        /\ bpc[p] = "done"
        /\ bfiles[p] = <<"a.pdf">>
        /\ ProcessedGet = <<JsonDumps(<<"a.pdf">>)>>
        /\ DocGet(FileHash("x")) # <<>>
        /\ \E h \in Hashes :
               /\ DocGet(h) # <<>>
               /\ JsonLoads(DocGet(h)[1]).file_name = "b.pdf"

\* C14: with ingestion and querying running together, every document
\* record a reader can get is whole: its chunks and its embeddings have the
\* same length, which is total_chunks.
C14_RecordsAreWhole ==
    \A h \in Hashes :
        DocGet(h) # <<>> =>
            LET doc_data == JsonLoads(DocGet(h)[1])
            IN  /\ Len(doc_data.chunks) = doc_data.total_chunks
                /\ Len(doc_data.embeddings) = doc_data.total_chunks

\* C14, the case: a query has built its sources from the stored records
\* while a batch, one record written, is in its next process_document call
C14_Witness ==
    /\ qpc["q1"] = "store"
    /\ qresult["q1"][1].sources # <<>>
    /\ bpc["b1"] = "extract"
    /\ Len(bresults["b1"]) = 1
    /\ bresults["b1"][1] = DocData("a.pdf", FileHash("y"), ChunkText(ExtractText("y")),
                                   GenerateEmbeddings(ChunkText(ExtractText("y"))))
    /\ DocGet(FileHash("y")) = <<JsonDumps(bresults["b1"][1])>>

\* C15: the query path never hangs on an external call: a process_query
\* call whose embedding or generation call does not return does return
\* in the end (with a timeout error).
C15_QueryNeverHangs ==
    \A p \in QProcs : (qpc[p] = "blocked") ~> (qpc[p] = "done")

\* the greatest similarity_score of a list of sources
RECURSIVE MaxScore(_)
MaxScore(sources) ==
    IF Len(sources) = 1 THEN sources[1].similarity_score
    ELSE LET rest == MaxScore(Tail(sources))
         IN  IF sources[1].similarity_score > rest
             THEN sources[1].similarity_score ELSE rest

\* C16: when the generation fails after a retrieval that found chunks,
\* process_query does not raise: its result holds the apology text, one
\* source per retrieved chunk, their number as total_sources and the
\* confidence of their greatest similarity, and that result is returned.
C16_GenerationFailureDegrades ==
    \A p \in QProcs :
        (qresult[p] # <<>> /\ qresult[p][1].response = "apology") =>
            LET result == qresult[p][1]
            IN  /\ qpc[p] \in {"store", "done"}
                /\ qcalls[p] = {"embed", "search", "generate"}
                /\ result.query = qquery[p]
                /\ result.sources # <<>>
                /\ Len(result.sources) <= qtopk[p]
                /\ result.total_sources = Len(result.sources)
                /\ result.confidence = Confidence(MaxScore(result.sources))
                /\ qpc[p] = "done" => qret[p] = qresult[p]

\* C16, the case: a call has returned the apology text with two sources
C16_Witness ==
    \E p \in QProcs :
        /\ qpc[p] = "done"
        /\ qret[p] # <<>>
        /\ qret[p][1].response = "apology"
        /\ qret[p][1].total_sources = 2
        /\ qret[p][1].confidence = "high"
        /\ qcalls[p] = {"embed", "search", "generate"}

\* C17: find_similar_chunks returns at most top_k results, for every
\* integer top_k a caller can pass: none for zero and for negative numbers
\* (for None, which names no number, nothing is required here).
C17_AtMostTopK ==
    \A i \in 1..Len(sresults) :
        stopk # <<>> =>
            Len(sresults[i]) <= (IF stopk[1] > 0 THEN stopk[1] ELSE 0)

\* all_similarities of the i-th search, before the sort
Searched(i) == AllSimilarities(EncodeQuery(squery), ProcessedFiles, spicks[i], 1)

\* the elements of a list, as a set
Elements(list) == {list[j] : j \in 1..Len(list)}

\* C18: the list find_similar_chunks returns is in non-increasing order of
\* similarity and is a true top-k of all chunks of the searched documents:
\* its elements are chunks of them, each once; no chunk left out has a
\* greater similarity than a chunk in it; for top_k >= 0 it holds top_k
\* chunks, or all of them when there are fewer, and all of them for None.
C18_SortedTrueTopK ==
    \A i \in 1..Len(sresults) :
        LET result == sresults[i]
            all == Searched(i)
        IN  /\ \A j, k \in 1..Len(result) :
                   j < k => /\ result[j].similarity >= result[k].similarity
                            /\ result[j] # result[k]
            /\ Elements(result) \subseteq Elements(all)
            /\ \A c \in Elements(all) \ Elements(result) :
                   \A r \in Elements(result) : c.similarity <= r.similarity
            /\ stopk = <<>> => Len(result) = Len(all)
            /\ (stopk # <<>> /\ stopk[1] >= 0) =>
                   Len(result) = (IF stopk[1] < Len(all) THEN stopk[1] ELSE Len(all))

\* C18, the case: the two best of three chunks have been returned, the
\* chunk left out being the first of the enumeration
C18_Witness ==
    /\ sstage = "searched"
    /\ stopk = <<2>>
    /\ Len(Searched(1)) = 3
    /\ Len(sresults[1]) = 2
    /\ Searched(1)[1] \notin Elements(sresults[1])
    /\ Searched(1)[1].similarity < sresults[1][2].similarity

\* the position of a file in the list processed_files holds
FilePosition(name) ==
    CHOOSE j \in 1..Len(ProcessedFiles) : ProcessedFiles[j] = name

\* C19: chunks of equal similarity are returned in the order of the
\* enumeration: by the position of their file in processed_files, then by
\* chunk index.
C19_TiesInEnumerationOrder ==
    \A i \in 1..Len(sresults) :
        LET result == sresults[i]
        IN  \A j, k \in 1..Len(result) :
               (j < k /\ result[j].similarity = result[k].similarity)
               => \/ FilePosition(result[j].file_name) < FilePosition(result[k].file_name)
                  \/ /\ result[j].file_name = result[k].file_name
                     /\ result[j].chunk_index < result[k].chunk_index

\* C19, the case: a chunk of the second file comes first, and of the two
\* chunks of equal similarity after it the one of the first file comes first
C19_Witness ==
    /\ sstage = "searched"
    /\ Len(sresults[1]) = 3
    /\ sresults[1][1].similarity > sresults[1][2].similarity
    /\ sresults[1][2].similarity = sresults[1][3].similarity
    /\ FilePosition(sresults[1][1].file_name) = 2
    /\ FilePosition(sresults[1][2].file_name) = 1
    /\ FilePosition(sresults[1][3].file_name) = 2

\* C20: with the store unchanged, two find_similar_chunks calls with the
\* same query and top_k return the same list, whatever the order in which
\* the key scan gives the doc:* keys.
C20_SearchDeterministic ==
    sstage = "repeated" => sresults[1] = sresults[2]

\* the greatest similarity of a non-empty list
TopScore(chunks) ==
    CHOOSE s \in {chunks[i].similarity : i \in 1..Len(chunks)} :
        \A i \in 1..Len(chunks) : chunks[i].similarity <= s

\* C21: the confidence of a result is "high" when the top similarity is
\* above 0.8, "medium" when it is above 0.6 and at most 0.8, "low"
\* otherwise, so that exactly 0.8 is "medium" and exactly 0.6 is "low"; the
\* result of an empty list is "low" with no sources and total_sources 0.
C21_ConfidencePolicy ==
    rstage = "built" =>
        LET r == rresult[1]
        IN  IF rchunks = <<>>
            THEN r.confidence = "low" /\ r.sources = <<>> /\ r.total_sources = 0
            ELSE LET s == TopScore(rchunks)
                 IN  /\ s > 800 => r.confidence = "high"
                     /\ (600 < s /\ s <= 800) => r.confidence = "medium"
                     /\ s <= 600 => r.confidence = "low"

\* a result whose top similarity is exactly 0.8 has been built as "medium"
C21_Witness ==
    /\ rstage = "built"
    /\ rchunks # <<>>
    /\ TopScore(rchunks) = 800
    /\ rresult[1].confidence = "medium"

\* the fields of the QueryResponse model
ResponseFields == {"query", "response", "sources", "confidence", "total_sources"}

\* C22: every response process_query returns, from the cache or from either
\* branch, has the five fields query, response, sources, confidence and
\* total_sources, its total_sources is the length of its sources, and its
\* confidence is one of "high", "medium", "low".
C22_ResponseShape ==
    \A p \in QProcs :
        qret[p] # <<>> =>
            LET r == qret[p][1]
            IN  /\ DOMAIN r = ResponseFields
                /\ r.total_sources = Len(r.sources)
                /\ r.confidence \in {"high", "medium", "low"}

\* one call has returned a response with sources out of the cache, the call
\* that stored it having returned the same
C22_Witness ==
    \E p, q \in QProcs :
        /\ p # q
        /\ qlookup[p] = "hit"
        /\ qret[p] # <<>>
        /\ qret[p][1].total_sources > 0
        /\ qret[q] = qret[p]

\* a step that is one iteration of the window loop of chunk_text
IterationStep == cstage = "loop" /\ citers' = citers + 1

\* C23: chunk_text terminates under every configuration: with a
\* chunk_overlap of max_chunk_size or more the configuration is rejected, so
\* that no iteration of the window loop runs that leaves the start where it
\* was or moves it back.
C23_OverlapAtLeastSizeRejected ==
    [][(IterationStep /\ chunk_overlap >= max_chunk_size) => cstart' > cstart]_vars

\* the window of Python's text[start:end] as positions of the text
Covers(w, i) ==
    SliceIndex(w[1], Len(ctext)) <= i /\ i < SliceIndex(w[2], Len(ctext))

\* a window whose slice is more than whitespace
NonBlankWindow(w) == StripText(Slice(ctext, w[1], w[2])) # <<>>

C25_ShortTextOneTrimmedChunk ==
    (cstage = "done" /\ Len(ctext) <= max_chunk_size) =>
        cchunks = <<StripText(ctext)>>

\* a full stop lies in the last fifth of the window that starts at start
PeriodInLastFifth(start) ==
    \E i \in 0..(Len(ctext) - 1) :
        /\ InLastFifth(i, start, max_chunk_size)
        /\ i < start + max_chunk_size
        /\ ctext[i + 1] = "."

\* the positions of the blank lines in the last fifth of that window
BlankLinesInLastFifth(start) ==
    {i \in 0..(Len(ctext) - 2) :
        /\ InLastFifth(i, start, max_chunk_size)
        /\ i + 2 <= start + max_chunk_size
        /\ ctext[i + 1] = "\n"
        /\ ctext[i + 2] = "\n"}

\* C26: when a window that more text follows has both a blank line and a
\* full stop in its last fifth, it ends just after the blank line and not
\* after the full stop; when it has neither, it ends at start +
\* max_chunk_size.
C26_BlankLinePreferred ==
    [][(IterationStep /\ cstart >= 0 /\ cstart + max_chunk_size < Len(ctext)) =>
          LET end == cwindows'[Len(cwindows')][2]
              blank == BlankLinesInLastFifth(cstart)
          IN  /\ (blank # {} /\ PeriodInLastFifth(cstart)) =>
                    \E i \in blank : (\A j \in blank : j <= i) /\ end = i + 2
              /\ (blank = {} /\ ~PeriodInLastFifth(cstart)) =>
                    end = cstart + max_chunk_size]_vars

\* C28: for 0 <= chunk_overlap < max_chunk_size every iteration of the
\* window loop moves the start forward and leaves it at 0 or above, the
\* iterations that end the window at a break included.
C28_StartStrictlyIncreases ==
    [][(IterationStep /\ 0 <= chunk_overlap /\ chunk_overlap < max_chunk_size) =>
          (cstart' > cstart /\ cstart' >= 0)]_vars

\* C27: a request to /query that is let in and within the rate limit
\* reaches process_query when its question has 1 to 500 characters, not all
\* of them whitespace; when the question is empty, nothing but whitespace or
\* longer than 500 characters, the response has status 400 or 422 and
\* process_query is not called.
C27_QuestionValidation ==
    (hstage = "responded" /\ hauthorized /\ ~hlimited) =>
        IF 1 <= hquestion.length /\ hquestion.length <= 500 /\ hquestion.nonblank > 0
        THEN hreached
        ELSE hstatus \in {400, 422} /\ ~hreached

\* C29: whenever processed_files exists, every file name it lists has an
\* unexpired doc:* record whose file_name is that name.
C29_ListedNamesHaveRecords ==
    \A i \in 1..Len(ProcessedFiles) : Matching(ProcessedFiles[i]) # {}

\* the record of a file name that was stored last: the one that expires last
LatestRecord(name) ==
    CHOOSE h \in Matching(name) :
        \A g \in Matching(name) : docs[g][1].exp <= docs[h][1].exp

\* C30: when a file has been ingested again with changed bytes and the
\* record of its old bytes is still there, find_similar_chunks returns for
\* that file name only chunks of the record stored last, and returns no
\* chunk of any file twice.
C30_OnlyLatestRecordScored ==
    \A i \in 1..Len(sresults) :
        /\ \A k \in 1..Len(sresults[i]) :
              sresults[i][k].chunk_text \in
                  Elements(JsonLoads(DocGet(LatestRecord(sresults[i][k].file_name))[1]).chunks)
        /\ \A k, l \in 1..Len(sresults[i]) :
              (sresults[i][k].file_name = sresults[i][l].file_name
               /\ sresults[i][k].chunk_index = sresults[i][l].chunk_index) => k = l

\* C31: a response built while the generation call failed (the apology) is
\* not written to the query cache, so no later call for the same normalized
\* query and top_k is served the apology from the cache without calling the
\* generation function.
C31_ApologyNotServedFromCache ==
    \A p \in QProcs :
        (qlookup[p] = "hit" /\ qret[p] # <<>>) =>
            (qret[p][1].response # "apology" \/ "generate" \in qcalls[p])

C33_SearchSurvivesExpiry == kstage # "raised"

\* C34: a step of process_query changes neither processed_files nor any
\* doc:* record and, of the query cache, at most the entry of its own
\* normalized query and top_k; a step of process_media_folder or
\* process_document changes no entry of the query cache.
C34_PathsKeepToTheirKeys ==
    [][/\ \A p \in QProcs :
            qpc'[p] # qpc[p] =>
                /\ docs' = docs
                /\ processed' = processed
                /\ \A key \in Keys :
                      qcache'[key] # qcache[key] =>
                          key = GetQueryCacheKey(qquery[p], qtopk[p])
       /\ \A p \in BProcs : bpc'[p] # bpc[p] => qcache' = qcache]_vars

\* a batch has stored a record and listed its file while the no-result
\* response of an earlier query is still in the cache
C34_Witness ==
    /\ bpc["b1"] = "done"
    /\ ProcessedFiles # <<>>
    /\ Matching(ProcessedFiles[1]) # {}
    /\ \E key \in Keys :
          /\ QueryGet(key) # <<>>
          /\ JsonLoads(QueryGet(key)[1]).total_sources = 0

\* C35: every chunk chunk_text emits has at most max_chunk_size characters,
\* whether its window ended after a full stop, after a blank line or at
\* start + max_chunk_size.
C35_ChunksWithinSize ==
    \A k \in 1..Len(cchunks) : Len(cchunks[k]) <= max_chunk_size

\* chunk_text has cut a long text into a chunk of exactly max_chunk_size
\* characters and a chunk whose window ended at a break before that
C35_Witness ==
    /\ Len(ctext) > max_chunk_size
    /\ Len(cchunks) = Len(cwindows)
    /\ \E k \in 1..Len(cchunks) : Len(cchunks[k]) = max_chunk_size
    /\ \E k \in 1..Len(cwindows) :
          /\ cwindows[k][2] < cwindows[k][1] + max_chunk_size
          /\ cwindows[k][2] < Len(ctext)

\* C36: for a text longer than max_chunk_size and 0 <= chunk_overlap <
\* max_chunk_size no chunk lies within the text the chunk before it has
\* covered; in particular, once a window has reached the end of the text
\* no further chunk is emitted.
C36_NoChunkAfterLastWindow ==
    [][(/\ IterationStep
        /\ 0 <= chunk_overlap
        /\ chunk_overlap < max_chunk_size
        /\ cwindows # <<>>
        /\ cwindows[Len(cwindows)][2] >= Len(ctext)) => cchunks' = cchunks]_vars

\* no limit + 1 of the times in the list lie within 60 seconds
WithinLimit(times) ==
    \A i \in 1..Len(times) :
        i + rate_limit_per_minute <= Len(times) =>
            times[i + rate_limit_per_minute] - times[i] >= 60

\* C37: over any sequence of _check_rate_limit calls with a clock that does
\* not go back, at most rate_limit_per_minute calls are admitted within any
\* 60 seconds; the list of timestamps never has more than
\* rate_limit_per_minute entries; it holds the times of the latest admitted
\* calls and nothing of a rejected call; and a call is rejected only while
\* rate_limit_per_minute admitted calls are younger than 60 seconds.
C37_SlidingWindowLimit ==
    /\ WithinLimit(madmitted)
    /\ Len(request_timestamps) <= rate_limit_per_minute
    /\ request_timestamps =
          SubSeq(madmitted, Len(madmitted) - Len(request_timestamps) + 1, Len(madmitted))
    /\ mlast = "rejected" =>
          Cardinality({i \in 1..Len(madmitted) : mnow - madmitted[i] < 60})
              >= rate_limit_per_minute
    /\ mlast = "admitted" =>
          Cardinality({i \in 1..(Len(madmitted) - 1) : mnow - madmitted[i] < 60})
              < rate_limit_per_minute

\* a call has been rejected at the limit and, 60 seconds after the oldest
\* admitted call, the next one has been admitted
C37_Witness ==
    /\ mlast = "admitted"
    /\ rate_limit_per_minute = 2
    /\ Len(madmitted) = 3
    /\ madmitted[3] - madmitted[1] = 60
    /\ mcalls = 4

\* C38: every path of the MCP server that runs a tool passes through
\* _check_rate_limit first, so no more than rate_limit_per_minute tools are
\* run within any 60 seconds.
C38_EveryToolPathLimited == WithinLimit(mexecuted)

\* C39: when MANUALMIND_API_KEY is configured, a request to a path that is
\* not public from a client whose address is not internal is granted only
\* if it carries the configured key in X-API-Key or as a bearer token, and
\* gets 401 otherwise, whatever other headers it carries.
C39_KeyRequiredFromOutside ==
    (/\ astage # "request"
     /\ aconfigured = <<"key">>
     /\ apath \in {"/query", "/process-documents"}
     /\ aclient = ExternalIp) =>
        IF axapikey = <<"key">> \/ abearer = <<"key">>
        THEN astage = "granted"
        ELSE astage = "401"

\* C9: a query and any respelling of it that differs only in letter case,
\* in leading or trailing whitespace or in the length of whitespace runs
\* have the same cache key for the same top_k.
C9_RespellingsShareKey ==
    nstage = "keyed" => nkeys[1] = nkeys[2]

\* C9, the case: a query and a respelling that differs in case and in the
\* length of an inner whitespace run have been given their keys
C9_Witness ==
    /\ nstage = "keyed"
    /\ nquery = <<"A", " ", "b">>
    /\ nvariant = <<"a", " ", " ", "B">>
    /\ nkeys[1] = nkeys[2]

====
